---- MODULE Spec2Model ----
(***************************************************************************)
(* A model of the dialogue engine and main loop of illusory-friends        *)
(* (src/src/main.rs): the Dialogue state, the Game facade over a RefCell,  *)
(* the dialogue scripts (async fns awaiting oneshot receivers), the local  *)
(* task pool and the frame loop of main.                                   *)
(*                                                                         *)
(* Two specifications are given.                                           *)
(*   Spec          the frame loop of main: Game.update, Game.draw, the     *)
(*                 Shift+I force-end, then LocalPool.run_until_stalled,    *)
(*                 with the scripts of main.rs as the tasks.               *)
(*   SpecDialogue  the Dialogue/Game API driven by arbitrary callers with  *)
(*                 arbitrary texts and choice lists.                       *)
(***************************************************************************)
EXTENDS Integers, Sequences, FiniteSets, TLC

VARIABLES
    dialogue,   \* _Game.dialogue : Dialogue
    info,       \* _Game.info : Info
    world,      \* _Game.overworld : positions and FollowComponents
    chan,       \* one oneshot channel per task slot (the wait it awaits)
    tasks,      \* the futures held by the LocalPool, by slot
    ready,      \* the pool's ready-to-run queue (woken tasks)
    incoming,   \* futures spawned through the LocalSpawner, not yet polled
    borrow,     \* the RefCell's borrow flag: 0 free, 1 mutably borrowed, 2 shared
    panicked,   \* "" or the cause of the panic that has unwound main
    assets,     \* the Assets main owns: the animated sprites, as loaded
    file,       \* assets/overworld.json: the document last written, or none
    phase,      \* position of main in its loop body
    last        \* what the last step did (history, read by the properties)

vars == <<dialogue, info, world, chan, tasks, ready, incoming, borrow, panicked, assets,
          file, phase, last>>

(***************************************************************************)
(* Bounds of the model.                                                    *)
(***************************************************************************)
MaxLen == 1        \* script lines are shown cut to their first MaxLen characters
MaxProgress == 2   \* Dialogue.update is explored while current_progress < MaxProgress
MaxText == 3       \* longest text a caller of SpecDialogue shows
MaxChoices == 3    \* longest choice list a caller of SpecDialogue offers
MaxTasks == 2      \* futures the pool holds at once
MaxX == 2          \* the player walks within 0..MaxX
MaxY == 0          \* and 0..MaxY
MaxEntities == 3   \* entity slots of the worlds drawn for the Overworld methods
MaxCoord == 2      \* their Positions have coordinates in 0..MaxCoord
MaxPriority == 1   \* Interactable priorities are in 0..MaxPriority
MaxFrames == 2     \* a sprite's frame table has no frame or MaxFrames frames
MaxAnimLen == 2    \* an animation's expanded sequence has at most MaxAnimLen entries
MaxTicks == 3      \* Overworld::update is explored for MaxTicks calls

Min(a, b) == IF a <= b THEN a ELSE b
Abs(a) == IF a < 0 THEN -a ELSE a

Slots == 1..MaxTasks

(***************************************************************************)
(* Dialogue (main.rs 513-590)                                              *)
(***************************************************************************)
\* WaitingFor::Nothing; the other variants carry the Sender of channel ch
Nothing == [kind |-> "Nothing", ch |-> 0]
Waiting(kind, ch) == [kind |-> kind, ch |-> ch]

NoChoices == [some |-> FALSE, list |-> <<>>]
SomeChoices(list) == [some |-> TRUE, list |-> list]

NoPortrait == [some |-> FALSE, texture |-> "", orientation |-> ""]

\* #[derive(Default)] struct Dialogue
DialogueDefault ==
    [shown |-> FALSE, current_text |-> "", current_progress |-> 0,
     waiting_for |-> Nothing, choices |-> NoChoices, current_choice |-> 0,
     portrait |-> NoPortrait]

\* A fresh oneshot channel / no channel
NoChan == [st |-> "none", val |-> 0, sends |-> 0]
NewChan == [st |-> "pending", val |-> 0, sends |-> 0]

NoTask == [script |-> "none", pc |-> "", pcls |-> "None", chosen |-> "None",
           strength |-> 0, cost |-> 0, entity |-> 0]

(***************************************************************************)
(* The state the operations work on, as one record, so that a handler can  *)
(* be written as the composition of the calls it makes.                    *)
(***************************************************************************)
G ==
    [d |-> dialogue, info |-> info, world |-> world, chan |-> chan, tasks |-> tasks,
     ready |-> ready, incoming |-> incoming, borrow |-> borrow, panicked |-> panicked]

Commit(g) ==
    /\ dialogue' = g.d
    /\ info' = g.info
    /\ world' = g.world
    /\ chan' = g.chan
    /\ tasks' = g.tasks
    /\ ready' = g.ready
    /\ incoming' = g.incoming
    /\ borrow' = g.borrow
    /\ panicked' = g.panicked
    /\ assets' = assets
    /\ file' = file

InSeq(x, s) == \E i \in 1..Len(s) : s[i] = x

\* a panic, with its cause; the first one stands
Panic(g, why) == IF g.panicked = "" THEN [g EXCEPT !.panicked = why] ELSE g

\* .borrow_mut() while borrowed, or .unwrap() on None
BorrowOrNone(g) == IF g.borrow # 0 THEN "already borrowed" ELSE "unwrap on None"

(***************************************************************************)
(* futures::channel::oneshot, as main.rs uses it: the Sender sits in       *)
(* Dialogue.waiting_for, the Receiver is awaited by the script.            *)
(***************************************************************************)
\* the waker of the task awaiting channel t puts the task on the ready queue
Wake(g, t) ==
    IF g.tasks[t].script # "none" /\ ~InSeq(t, g.ready)
    THEN [g EXCEPT !.ready = Append(@, t)]
    ELSE g

\* a Sender dropped without a send: the Receiver resolves to Err(Canceled)
DropSender(g, w) ==
    CASE w.kind # "Nothing" /\ g.chan[w.ch].st = "pending" ->
           Wake([g EXCEPT !.chan[w.ch].st = "cancelled"], w.ch)
      [] w.kind # "Nothing" /\ g.chan[w.ch].st = "closed" ->
           [g EXCEPT !.chan[w.ch] = NoChan]
      [] OTHER -> g

\* sender.send(v).unwrap(): Err (and the unwrap panics) iff the Receiver is gone
Send(g, w, v) ==
    IF g.chan[w.ch].st = "closed"
    THEN Panic(g, "unwrap on SendError")
    ELSE Wake([g EXCEPT !.chan[w.ch] =
                    [st |-> "value", val |-> v, sends |-> @.sends + 1]], w.ch)

\* variant: setting a text also drops the choice list and its highlight
set_text_resets_choices(d, text) ==
    [d EXCEPT !.shown = TRUE, !.current_text = text, !.current_progress = 0,
              !.choices = NoChoices, !.current_choice = 0]

(***************************************************************************)
(* impl Dialogue                                                           *)
(***************************************************************************)
set_text(d, text) ==
    [d EXCEPT !.shown = TRUE, !.current_text = text, !.current_progress = 0]

\* variant: the highlight stops at the first entry
ChoiceUp_stops(c, n) == IF c = 0 THEN 0 ELSE c - 1

\* main.rs 553-558
ChoiceUp(c, n) == IF c = 0 THEN n - 1 ELSE c - 1

\* main.rs 559-564
ChoiceDown(c, n) == IF c >= n - 1 THEN 0 ELSE c + 1

\* main.rs 551-565: reveal one more character, then move the highlight
RevealAndSelect(d, up, down) ==
    LET n == Len(d.choices.list)
        c1 == IF d.choices.some /\ up THEN ChoiceUp(d.current_choice, n)
              ELSE d.current_choice
        c2 == IF d.choices.some /\ down THEN ChoiceDown(c1, n) ELSE c1
    IN  [d EXCEPT !.current_progress = @ + 1, !.current_choice = c2]

\* variant: > for >=
AutoAdvance_late(g) ==
    IF g.d.current_progress > Len(g.d.current_text) /\ g.d.waiting_for.kind = "Auto"
    THEN Send([g EXCEPT !.d.waiting_for = Nothing], g.d.waiting_for, 0)
    ELSE g

\* main.rs 567-576
AutoAdvance(g) ==
    IF g.d.current_progress >= Len(g.d.current_text) /\ g.d.waiting_for.kind = "Auto"
    THEN Send([g EXCEPT !.d.waiting_for = Nothing], g.d.waiting_for, 0)
    ELSE g

\* variant: a fully revealed text confirms itself
ConfirmInput_when_revealed(g, space) ==
    IF ~(space \/ g.d.current_progress > Len(g.d.current_text)) THEN g
    ELSE CASE g.d.waiting_for.kind = "Confirm" ->
                Send([g EXCEPT !.d.waiting_for = Nothing], g.d.waiting_for, 0)
           [] g.d.waiting_for.kind = "Choice" ->
                [Send([g EXCEPT !.d.waiting_for = Nothing],
                      g.d.waiting_for, g.d.current_choice)
                   EXCEPT !.d.choices = NoChoices]
           [] OTHER -> g

\* variant: the Sender stays in waiting_for after the send
ConfirmInput_keeps_sender(g, space) ==
    IF ~space THEN g
    ELSE CASE g.d.waiting_for.kind = "Confirm" -> Send(g, g.d.waiting_for, 0)
           [] g.d.waiting_for.kind = "Choice" ->
                [Send(g, g.d.waiting_for, g.d.current_choice)
                   EXCEPT !.d.choices = NoChoices]
           [] OTHER -> g

\* main.rs 578-589
ConfirmInput(g, space) ==
    IF ~space THEN g
    ELSE CASE g.d.waiting_for.kind = "Confirm" ->
                Send([g EXCEPT !.d.waiting_for = Nothing], g.d.waiting_for, 0)
           [] g.d.waiting_for.kind = "Choice" ->
                [Send([g EXCEPT !.d.waiting_for = Nothing],
                      g.d.waiting_for, g.d.current_choice)
                   EXCEPT !.d.choices = NoChoices]
           [] OTHER -> g

Dialogue_update(g, up, down, space) ==
    ConfirmInput(AutoAdvance([g EXCEPT !.d = RevealAndSelect(@, up, down)]), space)

\* Dialogue::draw, main.rs 610: the characters drawn
num_chars(d) == Min(Len(d.current_text), d.current_progress)

(***************************************************************************)
(* impl Game: every method takes the RefCell's borrow for its duration     *)
(***************************************************************************)
\* variant: the Sender that the assignment replaces is leaked, not dropped
Install_leaks_sender(g, t, kind) ==
    [g EXCEPT !.chan[t] = NewChan, !.d.waiting_for = Waiting(kind, t)]

\* waiting_for = WaitingFor::kind(s); the receiver r goes to task t
Install(g, t, kind) ==
    LET old == g.d.waiting_for
        g1 == DropSender([g EXCEPT !.d.waiting_for = Nothing], old)
    IN  [g1 EXCEPT !.chan[t] = NewChan, !.d.waiting_for = Waiting(kind, t)]

show_text(g, t, text) ==
    IF g.borrow # 0 THEN Panic(g, "already borrowed")
    ELSE Install([g EXCEPT !.d = set_text(@, text)], t, "Confirm")

show_text_auto(g, t, text) ==
    IF g.borrow # 0 THEN Panic(g, "already borrowed")
    ELSE Install([g EXCEPT !.d = set_text(@, text)], t, "Auto")

show_choice(g, t, list) ==
    IF g.borrow # 0 THEN Panic(g, "already borrowed")
    ELSE Install([g EXCEPT !.d.choices = SomeChoices(list), !.d.current_choice = 0],
                 t, "Choice")

Maribelle == [some |-> TRUE, texture |-> "maribelleportrait", orientation |-> "Right"]
GhostPortrait == [some |-> TRUE, texture |-> "ghostportrait", orientation |-> "Left"]

show_portrait(g, portrait) ==
    IF g.borrow # 0 THEN Panic(g, "already borrowed")
    ELSE [g EXCEPT !.d.portrait = portrait]

\* variant: the portrait survives the call
end_dialogue_keeps_portrait(g) ==
    IF g.borrow # 0 THEN Panic(g, "already borrowed")
    ELSE DropSender([g EXCEPT !.d.shown = FALSE,
                              !.d.choices = NoChoices, !.d.current_choice = 0,
                              !.d.waiting_for = Nothing],
                    g.d.waiting_for)

\* variant: the pending continuation survives the call
end_dialogue_keeps_wait(g) ==
    IF g.borrow # 0 THEN Panic(g, "already borrowed")
    ELSE [g EXCEPT !.d.shown = FALSE, !.d.portrait = NoPortrait,
                   !.d.choices = NoChoices, !.d.current_choice = 0]

\* main.rs 923-930: current_text and current_progress are not assigned
end_dialogue(g) ==
    IF g.borrow # 0 THEN Panic(g, "already borrowed")
    ELSE DropSender([g EXCEPT !.d.shown = FALSE, !.d.portrait = NoPortrait,
                              !.d.choices = NoChoices, !.d.current_choice = 0,
                              !.d.waiting_for = Nothing],
                    g.d.waiting_for)

(***************************************************************************)
(* Overworld (main.rs 168-478).  Positions are whole numbers: the game     *)
(* moves by whole units.  The level is one lamp and one ghost; only the    *)
(* player carries a CollisionComponent in it.                              *)
(***************************************************************************)
Entities == {"player", "lamp", "ghost"}

\* the order in which a hecs query yields the level's entities
QueryOrder == <<"player", "lamp", "ghost">>

Vec2(x, y) == [x |-> x, y |-> y]
Rect(x, y, w, h) == [x |-> x, y |-> y, w |-> w, h |-> h]

\* Rect::offset, Rect::contains, Rect::overlaps and the edges, as main.rs uses them
Rect_offset(r, v) == [r EXCEPT !.x = @ + v.x, !.y = @ + v.y]
Rect_left(r) == r.x
Rect_right(r) == r.x + r.w
Rect_top(r) == r.y
Rect_bottom(r) == r.y + r.h
Rect_contains(r, p) ==
    /\ p.x >= Rect_left(r)
    /\ p.x < Rect_right(r)
    /\ p.y < Rect_bottom(r)
    /\ p.y >= Rect_top(r)
Rect_overlaps(r, o) ==
    /\ Rect_left(r) <= Rect_right(o)
    /\ Rect_right(r) >= Rect_left(o)
    /\ Rect_top(r) <= Rect_bottom(o)
    /\ Rect_bottom(r) >= Rect_top(o)

NoFollow == [some |-> FALSE, target |-> "", max_distance |-> 0, speed |-> 0]

\* the Interactable components of the level
HasInteractable(e) == e \in {"lamp", "ghost"}
LevelInteractable(e) ==
    IF e = "lamp"
    THEN [bounds |-> Rect(0, 0, 1, 1), interaction |-> "Lamp", priority |-> 5]
    ELSE [bounds |-> Rect(-1, 0, 2, 1), interaction |-> "Ghost", priority |-> 1]

\* the CollisionComponents of the level
HasCollision(e) == e = "player"
LevelCollision(e) == [bounds |-> Rect(0, 0, 1, 1)]

WorldInit ==
    [pos |-> [e \in Entities |->
                 CASE e = "player" -> Vec2(1, 0)
                   [] e = "lamp" -> Vec2(0, 0)
                   [] OTHER -> Vec2(2, 0)],
     follow |-> [e \in Entities |-> NoFollow]]

\* main.rs 387-413: the arrow keys held this frame move the player
MovePlayer(w, k) ==
    LET p == w.pos["player"]
        y1 == IF k.up THEN p.y - 1 ELSE p.y
        y2 == IF k.down THEN y1 + 1 ELSE y1
        x1 == IF k.left THEN p.x - 1 ELSE p.x
        x2 == IF k.right THEN x1 + 1 ELSE x1
    IN  [w EXCEPT !.pos["player"] = Vec2(x2, y2)]

Sign(a) == IF a < 0 THEN -1 ELSE 1

\* main.rs 259-271: the adjustment of follower e, from the positions in w
FollowAdjustment(w, e) ==
    LET f == w.follow[e]
        x_diff == w.pos[f.target].x - w.pos[e].x
        y_diff == w.pos[f.target].y - w.pos[e].y
    IN  IF Abs(x_diff) + Abs(y_diff) > f.max_distance
        THEN IF Abs(x_diff) > Abs(y_diff)
             THEN Vec2(Min(Abs(x_diff), f.speed) * Sign(x_diff), 0)
             ELSE Vec2(0, Min(Abs(y_diff), f.speed) * Sign(y_diff))
        ELSE Vec2(0, 0)

\* main.rs 254-279
follow(w) ==
    [w EXCEPT !.pos = [e \in Entities |->
        IF w.follow[e].some /\ w.follow[e].target \in Entities
        THEN Vec2(w.pos[e].x + FollowAdjustment(w, e).x,
                  w.pos[e].y + FollowAdjustment(w, e).y)
        ELSE w.pos[e]]]

MinByAbs(a, b) == IF Abs(b) < Abs(a) THEN b ELSE a

\* variant: pushes out of a box whether or not the two overlap
PushOut_untested(our_box, other_box) ==
    LET leftwards_motion == Rect_left(other_box) - Rect_right(our_box)
        rightwards_motion == Rect_right(other_box) - Rect_left(our_box)
        upwards_motion == Rect_top(other_box) - Rect_bottom(our_box)
        downwards_motion == Rect_bottom(other_box) - Rect_top(our_box)
        min_horiz == MinByAbs(leftwards_motion, rightwards_motion)
        min_vert == MinByAbs(upwards_motion, downwards_motion)
    IN  IF Abs(min_horiz) <= Abs(min_vert)
        THEN [our_box EXCEPT !.x = @ + min_horiz]
        ELSE [our_box EXCEPT !.y = @ + min_vert]

\* variant: a tie between the horizontal and the vertical push goes to the vertical
PushOut_vertical_on_tie(our_box, other_box) ==
    IF Rect_overlaps(our_box, other_box)
    THEN LET leftwards_motion == Rect_left(other_box) - Rect_right(our_box)
             rightwards_motion == Rect_right(other_box) - Rect_left(our_box)
             upwards_motion == Rect_top(other_box) - Rect_bottom(our_box)
             downwards_motion == Rect_bottom(other_box) - Rect_top(our_box)
             min_horiz == MinByAbs(leftwards_motion, rightwards_motion)
             min_vert == MinByAbs(upwards_motion, downwards_motion)
         IN  IF Abs(min_horiz) < Abs(min_vert)
             THEN [our_box EXCEPT !.x = @ + min_horiz]
             ELSE [our_box EXCEPT !.y = @ + min_vert]
    ELSE our_box

\* main.rs 302-319: our_box pushed out of other_box
PushOut(our_box, other_box) ==
    IF Rect_overlaps(our_box, other_box)
    THEN LET leftwards_motion == Rect_left(other_box) - Rect_right(our_box)
             rightwards_motion == Rect_right(other_box) - Rect_left(our_box)
             upwards_motion == Rect_top(other_box) - Rect_bottom(our_box)
             downwards_motion == Rect_bottom(other_box) - Rect_top(our_box)
             min_horiz == MinByAbs(leftwards_motion, rightwards_motion)
             min_vert == MinByAbs(upwards_motion, downwards_motion)
         IN  IF Abs(min_horiz) <= Abs(min_vert)
             THEN [our_box EXCEPT !.x = @ + min_horiz]
             ELSE [our_box EXCEPT !.y = @ + min_vert]
    ELSE our_box

RECURSIVE PushOutAll(_, _, _, _)
\* main.rs 288-320: the loop over the other entities, from the i-th on
PushOutAll(w, entity, our_box, i) ==
    IF i > Len(QueryOrder) THEN our_box
    ELSE LET id == QueryOrder[i]
         IN  IF id = entity \/ ~HasCollision(id)
             THEN PushOutAll(w, entity, our_box, i + 1)
             ELSE PushOutAll(w, entity,
                     PushOut(our_box, Rect_offset(LevelCollision(id).bounds, w.pos[id])),
                     i + 1)

\* main.rs 281-325
resolve_penetrations(w, entity) ==
    IF entity \in Entities /\ HasCollision(entity)
    THEN LET bounds == LevelCollision(entity).bounds
             pos == w.pos[entity]
             our_box == PushOutAll(w, entity, Rect_offset(bounds, pos), 1)
         IN  [w EXCEPT !.pos[entity] =
                 Vec2(pos.x + (our_box.x - bounds.x - pos.x),
                      pos.y + (our_box.y - bounds.y - pos.y))]
    ELSE w

RECURSIVE InsertByPriority(_, _)
\* a stable sort keeps equal keys in their order: e goes after the keys <= its own
InsertByPriority(sorted, e) ==
    IF sorted = <<>> THEN <<e>>
    ELSE IF LevelInteractable(sorted[Len(sorted)]).priority <= LevelInteractable(e).priority
         THEN Append(sorted, e)
         ELSE Append(InsertByPriority(SubSeq(sorted, 1, Len(sorted) - 1), e),
                     sorted[Len(sorted)])

RECURSIVE SortedInteractables(_)
\* main.rs 452-457: the interactables among the first i entities, by priority
SortedInteractables(i) ==
    IF i = 0 THEN <<>>
    ELSE IF HasInteractable(QueryOrder[i])
         THEN InsertByPriority(SortedInteractables(i - 1), QueryOrder[i])
         ELSE SortedInteractables(i - 1)

RECURSIVE FirstContaining(_, _, _, _)
\* main.rs 458-477: scan from the highest priority down
FirstContaining(w, sorted, pos, i) ==
    IF i = 0 THEN <<>>
    ELSE LET id == sorted[i]
             it == LevelInteractable(id)
         IN  IF Rect_contains(Rect_offset(it.bounds, w.pos[id]), pos)
             THEN <<[entity |-> id, interaction |-> it.interaction]>>
             ELSE FirstContaining(w, sorted, pos, i - 1)

\* main.rs 446-478: the events pushed
interact(w, entity) ==
    IF entity \notin Entities THEN <<>>
    ELSE LET sorted == SortedInteractables(Len(QueryOrder))
         IN  FirstContaining(w, sorted, w.pos[entity], Len(sorted))

\* main.rs 385-423: the world after the update, and the events it emitted
Overworld_update(w, k, allow_input) ==
    LET w1 == IF allow_input THEN follow(MovePlayer(w, k)) ELSE w
        w2 == resolve_penetrations(w1, "player")
    IN  [world |-> w2,
         events |-> IF allow_input /\ k.space THEN interact(w2, "player") ELSE <<>>]

InRange(w) ==
    /\ w.pos["player"].x \in 0..MaxX
    /\ w.pos["player"].y \in 0..MaxY

(***************************************************************************)
(* The dialogue scripts (main.rs 943-1314).  A task is at "start" (spawned,*)
(* never polled) or suspended at an .await, named by pc; one poll runs it  *)
(* to its next .await or to its end.                                       *)
(***************************************************************************)
\* the line as the model shows it: its first MaxLen characters
Line(s) == SubSeq(s, 1, Min(Len(s), MaxLen))

PlayerClass_str(c) ==
    CASE c = "Witch" -> "WITCH" [] c = "Princess" -> "PRINCESS" [] OTHER -> "KNIGHT"
PlayerClass_ghost_title(c) ==
    CASE c = "Witch" -> "GREAT WITCH" [] c = "Princess" -> "YOUR HIGHNESS"
      [] OTHER -> "MY LADY"
GhostClass_affectation(c) ==
    CASE c = "Ghost" -> "WOO OO" [] c = "Goblin" -> "NYEHEHEH" [] OTHER -> "AYE"

SetPc(g, t, pc) == [g EXCEPT !.tasks[t].pc = pc]

\* game.show_text(..).await and its siblings: install the wait, suspend at pc
AwaitText(g, t, text, pc) == SetPc(show_text(g, t, Line(text)), t, pc)
AwaitAuto(g, t, text, pc) == SetPc(show_text_auto(g, t, Line(text)), t, pc)
AwaitChoice(g, t, list, pc) == SetPc(show_choice(g, t, list), t, pc)

\* The pool keeps its futures in a list: slot numbers are positions in it, and the
\* futures behind a removed one move up.  to[t] is the new slot of the future in t.
Occupied(g, t) == g.tasks[t].script # "none" \/ g.chan[t].st # "none"
Compact(g) ==
    LET to == [t \in Slots |-> Cardinality({u \in Slots : u <= t /\ Occupied(g, u)})]
        from(n) == IF \E t \in Slots : Occupied(g, t) /\ to[t] = n
                   THEN CHOOSE t \in Slots : Occupied(g, t) /\ to[t] = n
                   ELSE 0
    IN  [g EXCEPT !.tasks = [n \in Slots |-> IF from(n) = 0 THEN NoTask ELSE g.tasks[from(n)]],
                  !.chan = [n \in Slots |-> IF from(n) = 0 THEN NoChan ELSE g.chan[from(n)]],
                  !.ready = [i \in 1..Len(g.ready) |-> to[g.ready[i]]],
                  !.incoming = [i \in 1..Len(g.incoming) |-> to[g.incoming[i]]],
                  !.d.waiting_for = IF g.d.waiting_for.kind = "Nothing" THEN Nothing
                                    ELSE [g.d.waiting_for EXCEPT !.ch = to[@]]]

\* the future has completed (Ok, or Err logged by wrap_dialogue): the pool drops
\* it, and with it the Receiver it may still hold
Finish(g, t) ==
    Compact([g EXCEPT !.tasks[t] = NoTask,
                      !.chan[t] = IF g.d.waiting_for.kind # "Nothing" /\ g.d.waiting_for.ch = t
                                  THEN [NoChan EXCEPT !.st = "closed"]
                                  ELSE NoChan])

\* main.rs 943-950
lamp_dialogue_tree(g, t, v) ==
    LET pc == g.tasks[t].pc
    IN  CASE pc = "start" ->
               AwaitText(show_portrait(g, Maribelle), t, "IT'S A LAMP.", "lamp_1")
          [] pc = "lamp_1" ->
               AwaitText(g, t, "I WISH IT WERE A BIT BRIGHTER...", "lamp_2")
          [] OTHER -> Finish(end_dialogue(g), t)

\* main.rs 1098, 1110, 1119: the line before ghost_after's loop continues
ga_anything_else(g, t) ==
    AwaitAuto(show_portrait(g, GhostPortrait), t,
              "IS THERE ANYTHING ELSE\nYOU WANT TO TALK ABOUT?", "ga_else")

\* main.rs 1138-1146: ghost_meeting once ghost_customize_ghost_class returned Ok
gm_follow_line(g, t) ==
    IF g.borrow = 1 \/ g.info.player_class = "None" \/ g.info.ghost_class = "None"
    THEN Panic(g, BorrowOrNone(g))
    ELSE AwaitText(show_portrait(g, GhostPortrait), t,
                   "WELL THEN, " \o PlayerClass_str(g.info.player_class)
                     \o " MARIBELLE,\nI'LL FOLLOW YOU! "
                     \o GhostClass_affectation(g.info.ghost_class) \o "!",
                   "gm_follow")

\* ghost_customize_player_class(..).await? returned Ok to its caller
Return_customize_player_class(g, t) ==
    IF g.tasks[t].script = "ghost_meeting"
    THEN AwaitAuto(show_portrait(g, GhostPortrait), t,
                   "COME TO THINK OF IT...\nWHAT AM I, EXACTLY?", "gm_what")
    ELSE ga_anything_else(g, t)

\* ghost_customize_ghost_class(..).await? returned Ok to its caller
Return_customize_ghost_class(g, t) ==
    IF g.tasks[t].script = "ghost_meeting" THEN gm_follow_line(g, t)
    ELSE ga_anything_else(g, t)

PlayerClassOf(v) == CASE v = 0 -> "Witch" [] v = 1 -> "Princess" [] OTHER -> "Knight"
GhostClassOf(v) == CASE v = 0 -> "Ghost" [] v = 1 -> "Goblin" [] OTHER -> "Dwarf"

\* main.rs 952-992
ghost_customize_player_class(g, t, v) ==
    LET pc == g.tasks[t].pc
        c == g.tasks[t].chosen
    IN  CASE pc = "call" ->
               AwaitChoice(g, t, <<"A WITCH", "A PRINCESS", "A KNIGHT">>, "cp_choice")
          [] pc = "cp_choice" ->
               AwaitText(show_portrait([g EXCEPT !.tasks[t].chosen = PlayerClassOf(v)],
                                       Maribelle), t,
                   CASE PlayerClassOf(v) = "Witch" ->
                          "I AM THE GREAT WITCH, MARIBELLE.\nYOU ARE A SERVANT I HAVE CONJURED."
                     [] PlayerClassOf(v) = "Princess" ->
                          "I AM THE CROWN PRINCESS, MARIBELLE.\nYOU ARE MY LOYAL SUBJECT."
                     [] OTHER ->
                          "I AM THE QUESTING KNIGHT, MARIBELLE.\nWOULD YOU LIKE TO BE MY SQUIRE?",
                   "cp_a")
          [] pc = "cp_a" ->
               AwaitText(show_portrait(g, GhostPortrait), t,
                   CASE c = "Witch" -> "WOW! YOU CREATED ME?\nYOUR MAGIC IS REALLY POWERFUL!"
                     [] c = "Princess" ->
                          "THE PRINCESS? WHAT AN HONOR!\nYOUR WISH IS MY COMMAND, HIGHNESS!"
                     [] OTHER -> "OF COURSE!\nI ALWAYS WANTED TO GO QUESTING!",
                   "cp_b")
          [] OTHER ->
               LET g1 == end_dialogue(g)
               IN  IF g1.borrow # 0 THEN Panic(g1, "already borrowed")
                   ELSE Return_customize_player_class(
                            [g1 EXCEPT !.info.player_class = c,
                                       !.tasks[t].chosen = "None"], t)

\* main.rs 994-1058
ghost_customize_ghost_class(g, t, v) ==
    LET pc == g.tasks[t].pc
        c == g.tasks[t].chosen
        player_class == g.tasks[t].pcls
    IN  CASE pc = "call" ->
               IF g.borrow = 1 \/ g.info.player_class = "None" THEN Panic(g, BorrowOrNone(g))
               ELSE AwaitChoice([g EXCEPT !.tasks[t].pcls = g.info.player_class], t,
                                <<"A GHOST", "A GOBLIN", "A DWARF">>, "cg_choice")
          [] pc = "cg_choice" ->
               AwaitText(show_portrait([g EXCEPT !.tasks[t].chosen = GhostClassOf(v)],
                                       Maribelle), t,
                   CASE GhostClassOf(v) = "Ghost" ->
                          "YOU ARE A FORGOTTEN SPIRIT,\nBROUGHT BACK BY POWERFUL NECROMANCY."
                     [] GhostClassOf(v) = "Goblin" ->
                          "YOU ARE A GOBLIN TROUBLEMAKER,\nTERRORIZING THE LAND."
                     [] OTHER -> "YOU ARE A DWARVEN WARRIOR,\nWISE AND STRONG.",
                   "cg_a")
          [] pc = "cg_a" ->
               AwaitText(show_portrait(g, GhostPortrait), t,
                   CASE c = "Ghost" ->
                          IF player_class = "Witch"
                          THEN "OOOOOO!\nTHANKS FOR BRINGING ME BACK!"
                          ELSE "OOOOOOO!\nSPOOKY!"
                     [] c = "Goblin" ->
                          IF player_class = "Knight"
                          THEN "NYEHEHEH!  I HOPE THERE'S\nNO HARD FEELINGS, MS. KNIGHT!"
                          ELSE "NYEHEHEH!\nSOUNDS FUN!"
                     [] OTHER ->
                          IF player_class = "Princess"
                          THEN "AYE, MY LIEGE!\nI ALWAYS WANTED TO SAY THAT!"
                          ELSE "AYE, THAT I AM!\nI HOPE I GET A COOL BEARD!",
                   "cg_b")
          [] OTHER ->
               IF g.borrow # 0 THEN Panic(g, "already borrowed")
               ELSE Return_customize_ghost_class(
                        end_dialogue([g EXCEPT !.info.ghost_class = c,
                                               !.tasks[t].chosen = "None",
                                               !.tasks[t].pcls = "None"]), t)

\* main.rs 1127-1164
ghost_meeting(g, t, v) ==
    LET pc == g.tasks[t].pc
    IN  CASE pc = "start" ->
               AwaitAuto(show_portrait(g, GhostPortrait), t,
                         "HI THERE!\nWHO ARE YOU?", "gm_hi")
          [] pc = "gm_hi" -> ghost_customize_player_class(SetPc(g, t, "call"), t, v)
          [] pc = "gm_what" -> ghost_customize_ghost_class(SetPc(g, t, "call"), t, v)
          [] pc = "gm_follow" ->
               LET g1 == end_dialogue(g)
                   ghost == g.tasks[t].entity
               IN  IF g1.borrow # 0 \/ ghost \notin Entities
                   THEN Panic(g1, IF g1.borrow # 0 THEN "already borrowed"
                                  ELSE "unwrap on NoSuchEntity")
                   ELSE Finish([g1 EXCEPT !.world.follow[ghost] =
                                   [some |-> TRUE, target |-> "player",
                                    max_distance |-> 64, speed |-> 1]], t)
          [] pc \in {"cp_choice", "cp_a", "cp_b"} -> ghost_customize_player_class(g, t, v)
          [] OTHER -> ghost_customize_ghost_class(g, t, v)

\* main.rs 1173-1176: the top of firebolt_dialogue_tree's loop
fb_loop(g, t) ==
    AwaitChoice([g EXCEPT !.tasks[t].strength = 0, !.tasks[t].cost = 0], t,
                <<"VERY STRONG", "IT'S OK", "IT'S WEAK">>, "fb_strength")

\* main.rs 1166-1314
firebolt_dialogue_tree(g, t, v) ==
    LET pc == g.tasks[t].pc
        player_class == g.tasks[t].pcls
        strength == g.tasks[t].strength
        cost == g.tasks[t].cost
    IN  CASE pc = "call" ->
               IF g.borrow = 1 \/ g.info.player_class = "None" THEN Panic(g, BorrowOrNone(g))
               ELSE AwaitAuto(show_portrait([g EXCEPT !.tasks[t].pcls = g.info.player_class],
                                            GhostPortrait), t,
                              "WOW!  SO THIS SPELL IS CALLED FIREBOLT!\nHOW STRONG IS IT?",
                              "fb_intro")
          [] pc = "fb_intro" -> fb_loop(g, t)
          [] pc = "fb_strength" ->
               AwaitText(show_portrait([g EXCEPT !.tasks[t].strength = v], Maribelle), t,
                   CASE v = 0 -> "IT'S SUPER STRONG.\nIT COULD PROBABLY KILL A DRAGON."
                     [] v = 1 -> "IT'S NOTHING SPECIAL.\nAN EVERYDAY SPELL FOR ME."
                     [] OTHER -> "IT'S SUPER WEAK.\nI'M STILL LEARNING BETTER SPELLS...",
                   "fb_s1")
          [] pc = "fb_s1" ->
               AwaitText(show_portrait(g, GhostPortrait), t,
                   CASE strength = 0 ->
                          "WOW! THAT'S SO COOL!\nYOU MUST BE A POWERFUL "
                            \o PlayerClass_str(player_class) \o "!"
                     [] strength = 1 -> "THAT'S NEAT!\nI BET YOU STUDIED HARD TO LEARN IT."
                     [] OTHER -> "AW, THAT'S OKAY.\nI BET YOU'LL GET STRONGER IN NO TIME!",
                   "fb_s2")
          [] pc = "fb_s2" ->
               AwaitText(g, t,
                   CASE strength = 0 -> "SINCE IT'S SO STRONG,\nHOW MUCH MANA DOES IT COST?"
                     [] strength = 1 ->
                          "SO SINCE IT'S AVERAGE STRENGTH,\nHOW MUCH MANA DOES IT COST?"
                     [] OTHER -> "SO SINCE IT'S PRETTY WEAK,\nHOW MUCH MANA DOES IT COST?",
                   "fb_s3")
          [] pc = "fb_s3" ->
               AwaitChoice(g, t, <<"LOTS OF MANA", "NOT TOO MUCH", "BARELY ANY">>, "fb_cost")
          [] pc = "fb_cost" ->
               AwaitText(show_portrait([g EXCEPT !.tasks[t].cost = v], Maribelle), t,
                   CASE v = 0 -> "TONS.\nONLY THE MOST POWERFUL CAN WIELD IT."
                     [] v = 1 -> "NOT TOO MUCH.\nI CAN HANDLE IT, EASY."
                     [] OTHER -> "IT'S SUPER CHEAP.\nI CAN CAST IT ALL DAY.",
                   "fb_c1")
          [] pc = "fb_c1" ->
               AwaitText(show_portrait([g EXCEPT !.tasks[t].pcls = "None"], GhostPortrait), t,
                   CASE cost = 0 /\ strength = 0 ->
                          "WHOA. THAT'S ONLY FITTING\nFOR SUCH A POWERFUL SPELL!"
                     [] cost = 0 /\ strength = 1 ->
                          "WOW. BEING A " \o PlayerClass_str(player_class)
                            \o " IS HARD...\nYOU'RE SO COOL!"
                     [] cost = 0 -> "WOW, THAT MUCH?\nMAYBE THIS SPELL ISN'T SO GOOD..."
                     [] cost = 1 /\ strength = 0 ->
                          "SUCH AN EFFICIENT SPELL!\nYOU'RE SO SMART!"
                     [] cost = 1 /\ strength = 1 ->
                          "THAT'S A GREAT SPELL TO START WITH.\nGOOD THINKING!"
                     [] cost = 1 -> "IT SOUNDS HARD TO USE,\nBUT I BET YOU'LL DO GREAT!"
                     [] strength = 0 ->
                          "WOW... IS THAT THE STRONGEST SPELL?\nTHAT'S AMAZING! THIS'LL BE A BREEZE!"
                     [] strength = 1 ->
                          "THAT'S GREAT! WE CAN GO\nON A WHILE WITHOUT RESTING!"
                     [] OTHER -> "THAT MAKES SENSE.\nIT'S GREAT TO HAVE OPTIONS!",
                   "fb_c2")
          [] pc = "fb_c2" ->
               AwaitText([g EXCEPT !.tasks[t].strength = 0, !.tasks[t].cost = 0], t,
                   "SO FIREBOLT IS "
                     \o (CASE strength = 0 -> "A VERY STRONG" [] strength = 1 -> "A GOOD"
                           [] OTHER -> "A WEAK")
                     \o " SPELL THAT\nCOSTS "
                     \o (CASE cost = 0 -> "A LOT OF" [] cost = 1 -> "SOME"
                           [] OTHER -> "BARELY ANY")
                     \o " MANA. ARE YOU SURE?",
                   "fb_sure")
          [] pc = "fb_sure" -> AwaitChoice(g, t, <<"YES", "ACTUALLY...">>, "fb_confirm")
          [] pc = "fb_confirm" ->
               IF v = 0
               THEN AwaitText(g, t, "GREAT! REMEMBER,\nYOU CAN ALWAYS CHANGE YOUR MIND!",
                              "fb_done")
               ELSE AwaitText(g, t, "OH, WANNA GO OVER IT AGAIN?\nTHAT'S OKAY!", "fb_again1")
          [] pc = "fb_again1" ->
               AwaitText(g, t, "SO THIS SPELL IS CALLED FIREBOLT!\nHOW STRONG IS IT?",
                         "fb_again2")
          [] pc = "fb_again2" -> fb_loop(g, t)
          [] OTHER ->
               ga_anything_else(
                   end_dialogue([g EXCEPT !.tasks[t].strength = 0, !.tasks[t].cost = 0,
                                          !.tasks[t].pcls = "None"]), t)

\* main.rs 1070-1071: the top of ghost_after's loop
ga_loop(g, t) == AwaitChoice(g, t, <<"NOTHING", "US", "FIREBOLT">>, "ga_menu")

\* main.rs 1060-1125
ghost_after(g, t, v) ==
    LET pc == g.tasks[t].pc
    IN  CASE pc = "start" ->
               IF g.borrow = 1 \/ g.info.player_class = "None" THEN Panic(g, BorrowOrNone(g))
               ELSE AwaitAuto(show_portrait(g, GhostPortrait), t,
                              "ANYTHING YOU WANT TO TALK ABOUT,\n"
                                \o PlayerClass_ghost_title(g.info.player_class) \o "?",
                              "ga_hello")
          [] pc \in {"ga_hello", "ga_else"} -> ga_loop(g, t)
          [] pc = "ga_menu" ->
               CASE v = 0 ->
                      AwaitText(g, t,
                          "THAT'S OKAY.  LET ME KNOW\nIF THERE'S ANYTHING YOU WANT TO CHANGE!",
                          "ga_bye")
                 [] v = 1 ->
                      AwaitAuto(g, t, "WHICH OF US DO YOU WANT\nTO TALK ABOUT?", "ga_which")
                 [] OTHER -> firebolt_dialogue_tree(SetPc(g, t, "call"), t, v)
          [] pc = "ga_bye" -> Finish(end_dialogue(g), t)
          [] pc = "ga_which" -> AwaitChoice(g, t, <<"NEVERMIND", "ME", "YOU">>, "ga_who")
          [] pc = "ga_who" ->
               CASE v = 0 ->
                      AwaitAuto(g, t, "OH, OKAY!\nWAS THERE ANYTHING ELSE?", "ga_else")
                 [] v = 1 ->
                      AwaitText(show_portrait(g, Maribelle), t,
                                "I WANT TO BE SOMEONE DIFFERENT.", "ga_me1")
                 [] OTHER ->
                      AwaitText(show_portrait(g, Maribelle), t,
                                "I WANT YOU TO BE SOMEONE ELSE.", "ga_you1")
          [] pc = "ga_me1" ->
               AwaitAuto(show_portrait(g, GhostPortrait), t,
                         "OKAY THEN!\nWHO ARE YOU?", "ga_me2")
          [] pc = "ga_me2" -> ghost_customize_player_class(SetPc(g, t, "call"), t, v)
          [] pc = "ga_you1" ->
               AwaitText(show_portrait(g, GhostPortrait), t,
                         "COOL!\nA CHANGE IS ALWAYS NICE.", "ga_you2")
          [] pc = "ga_you2" -> AwaitAuto(g, t, "UMM... WHAT AM I, EXACTLY?", "ga_you3")
          [] pc = "ga_you3" -> ghost_customize_ghost_class(SetPc(g, t, "call"), t, v)
          [] pc \in {"cp_choice", "cp_a", "cp_b"} -> ghost_customize_player_class(g, t, v)
          [] pc \in {"cg_choice", "cg_a", "cg_b"} -> ghost_customize_ghost_class(g, t, v)
          [] OTHER -> firebolt_dialogue_tree(g, t, v)

\* the script of task t runs from where it is, resumed with v
RunScript(g, t, v) ==
    CASE g.tasks[t].script = "lamp_dialogue_tree" -> lamp_dialogue_tree(g, t, v)
      [] g.tasks[t].script = "ghost_meeting" -> ghost_meeting(g, t, v)
      [] OTHER -> ghost_after(g, t, v)

\* variant: the Err(Canceled) of the script is unwrapped instead of logged
wrap_dialogue_unwraps(g, t) ==
    IF g.tasks[t].pc = "start" THEN RunScript(g, t, 0)
    ELSE CASE g.chan[t].st = "value" ->
                RunScript([g EXCEPT !.chan[t] = NoChan], t, g.chan[t].val)
           [] g.chan[t].st = "cancelled" -> Panic(g, "unwrap on Canceled")
           [] OTHER -> g

\* main.rs 1316-1324: one poll of wrap_dialogue(script).  The `?` after .await
\* returns Err(Canceled) out of the script, which wrap_dialogue logs.
wrap_dialogue(g, t) ==
    IF g.tasks[t].pc = "start" THEN RunScript(g, t, 0)
    ELSE CASE g.chan[t].st = "value" ->
                RunScript([g EXCEPT !.chan[t] = NoChan], t, g.chan[t].val)
           [] g.chan[t].st = "cancelled" -> Finish([g EXCEPT !.chan[t] = NoChan], t)
           [] OTHER -> g

(***************************************************************************)
(* Game::update (main.rs 830-861) and the loop of main (main.rs 1342-1379) *)
(***************************************************************************)
FreeSlots(g) == {t \in Slots : g.tasks[t].script = "none" /\ g.chan[t].st = "none"}

\* variant: the spawned future is polled at once, inside Game::update
spawn_local_polls(g, script, entity) ==
    LET t == CHOOSE t \in FreeSlots(g) : \A u \in FreeSlots(g) : t <= u
    IN  wrap_dialogue([g EXCEPT !.tasks[t] = [NoTask EXCEPT !.script = script,
                                                           !.pc = "start",
                                                           !.entity = entity]], t)

\* spawner.spawn_local(wrap_dialogue(script(..))): the future is queued, not polled
spawn_local(g, script, entity) ==
    LET t == CHOOSE t \in FreeSlots(g) : \A u \in FreeSlots(g) : t <= u
    IN  [g EXCEPT !.tasks[t] = [NoTask EXCEPT !.script = script, !.pc = "start",
                                              !.entity = entity],
                  !.incoming = Append(@, t)]

\* variant: a Ghost event starts the already-met script whatever Info holds
Dispatch_already_met(g, event) ==
    IF event.interaction = "Lamp" THEN spawn_local(g, "lamp_dialogue_tree", "")
    ELSE spawn_local(g, "ghost_after", "")

\* variant: a Ghost event starts the first-meeting script whatever Info holds
Dispatch_first_meeting(g, event) ==
    IF event.interaction = "Lamp" THEN spawn_local(g, "lamp_dialogue_tree", "")
    ELSE spawn_local(g, "ghost_meeting", event.entity)

\* main.rs 838-860: the script an Interaction event starts
Dispatch(g, event) ==
    IF event.interaction = "Lamp" THEN spawn_local(g, "lamp_dialogue_tree", "")
    ELSE IF g.info.ghost_class = "None"
         THEN spawn_local(g, "ghost_meeting", event.entity)
         ELSE spawn_local(g, "ghost_after", "")

RECURSIVE DispatchAll(_, _)
DispatchAll(g, events) ==
    IF events = <<>> THEN g ELSE DispatchAll(Dispatch(g, Head(events)), Tail(events))

\* variant: input is allowed whether or not the dialogue is shown
Game_update_allows_input(g, k) ==
    IF g.borrow # 0 THEN Panic(g, "already borrowed")
    ELSE LET this == [g EXCEPT !.borrow = 1]
             shown == this.d.shown
             ow == Overworld_update(this.world, k, TRUE)
             g1 == [this EXCEPT !.world = ow.world]
             g2 == IF shown THEN Dialogue_update(g1, k.up, k.down, k.space) ELSE g1
             g3 == DispatchAll(g2, ow.events)
         IN  [g3 EXCEPT !.borrow = 0]

\* main.rs 830-861, the keys of the frame being k
Game_update(g, k) ==
    IF g.borrow # 0 THEN Panic(g, "already borrowed")
    ELSE LET this == [g EXCEPT !.borrow = 1]
             shown == this.d.shown
             ow == Overworld_update(this.world, k, ~shown)
             g1 == [this EXCEPT !.world = ow.world]
             g2 == IF shown THEN Dialogue_update(g1, k.up, k.down, k.space) ELSE g1
             g3 == DispatchAll(g2, ow.events)
         IN  [g3 EXCEPT !.borrow = 0]

\* variant: the Ref taken by draw outlives the call
Game_draw_keeps_borrow(g) ==
    IF g.borrow = 1 THEN Panic(g, "already borrowed") ELSE [g EXCEPT !.borrow = 2]

\* main.rs 863-868: nothing is written
Game_draw(g) == IF g.borrow = 1 THEN Panic(g, "already borrowed") ELSE g

\* main.rs 1358-1361
main_keys(g, shiftI) == IF shiftI THEN end_dialogue(g) ELSE g

\* the keys a frame can see: with the dialogue shown Game::update reads Up, Down and
\* Space as presses, without it the four arrows as held and Space as a press
Keys(shown) ==
    {k \in [up : BOOLEAN, down : BOOLEAN, left : BOOLEAN, right : BOOLEAN, space : BOOLEAN] :
        shown => ~k.left /\ ~k.right}

NoKeys == [up |-> FALSE, down |-> FALSE, left |-> FALSE, right |-> FALSE, space |-> FALSE]

\* history: the step taken last, the keys it saw, whether Shift+I was pressed in
\* this frame, and (SpecDialogue) the updates since the text was set
Last(op, k, forced, ticks) == [op |-> op, keys |-> k, forced |-> forced, ticks |-> ticks]

TypeOK ==
    /\ dialogue.shown \in BOOLEAN
    /\ dialogue.current_progress \in 0..(IF phase = "api" THEN MaxText + 1 ELSE MaxProgress)
    /\ dialogue.waiting_for.kind \in {"Nothing", "Confirm", "Choice", "Auto"}
    /\ phase \in {"update", "draw", "tasks", "api"}
    /\ borrow \in 0..2

(***************************************************************************)
(* Assets (assets.rs 171-178) and AnimatedSprite (animated_sprite.rs).     *)
(* A frame of a sprite's frame table is named by its index; the table is   *)
(* known by its length, an animation by its expanded sequence of indices.  *)
(***************************************************************************)
\* assets/overworld.json as the model of the frame loop leaves it: not written
NoFile == [kind |-> "none"]

AnimationNames == {"Idle", "Back"}
NoSequence == [some |-> FALSE, data |-> <<>>]
Sequence(data) == [some |-> TRUE, data |-> data]
\* SpriteInfo { frames, animations }
AnimatedSprite(frames, animations) == [frames |-> frames, animations |-> animations]

\* animated_sprite.rs 165-171
get_anim_length(sprite, anim) ==
    IF anim \in DOMAIN sprite.animations /\ sprite.animations[anim].some
    THEN Len(sprite.animations[anim].data)
    ELSE 0

\* animated_sprite.rs 153-163: the index into the frame table of the frame
\* returned; indexing the table past its end panics (ok = FALSE)
get_anim_frame(sprite, anim, frame) ==
    LET frame_id == IF anim \in DOMAIN sprite.animations /\ sprite.animations[anim].some
                       /\ frame < Len(sprite.animations[anim].data)
                    THEN sprite.animations[anim].data[frame + 1]
                    ELSE 0
    IN  IF frame_id < sprite.frames
        THEN [ok |-> TRUE, frame |-> frame_id]
        ELSE [ok |-> FALSE, frame |-> 0]

\* assets.rs 77-83: AnimatedSpriteId(i) indexes Assets.animated_sprites
Assets_get(a, id) == a.animated_sprites[id + 1]

\* Assets::new: the character sprite first, the ghost sprite second.  The frame
\* loop and the dialogue API never read the sprites.
LoadedAssets ==
    [char_sprite |-> 0,
     animated_sprites |->
        <<AnimatedSprite(1, [n \in AnimationNames |-> Sequence(<<0>>)]),
          AnimatedSprite(1, [n \in AnimationNames |-> Sequence(<<0>>)])>>]

Init ==
    /\ file = NoFile
    /\ assets = LoadedAssets
    /\ dialogue = DialogueDefault
    /\ info = [player_class |-> "None", ghost_class |-> "None"]
    /\ world = WorldInit
    /\ chan = [t \in Slots |-> NoChan]
    /\ tasks = [t \in Slots |-> NoTask]
    /\ ready = <<>>
    /\ incoming = <<>>
    /\ borrow = 0
    /\ panicked = ""
    /\ phase = "update"
    /\ last = Last("init", NoKeys, FALSE, 0)

\* game.update(&assets, &spawner)
GameUpdate ==
    /\ phase = "update"
    /\ panicked = ""
    /\ dialogue.shown => dialogue.current_progress < MaxProgress
    /\ \E k \in Keys(dialogue.shown) :
          LET ow == Overworld_update(world, k, ~dialogue.shown)
          IN  /\ InRange(ow.world)
              /\ Len(ow.events) <= Cardinality(FreeSlots(G))
              /\ Commit(Game_update(G, k))
    /\ phase' = "draw"
    /\ last' = Last("update", NoKeys, FALSE, 0)

\* what a poll of task t finds: a first poll, a delivered value, Err(Canceled)
PollOutcome(g, t) ==
    CASE g.tasks[t].pc = "start" -> "started"
      [] g.chan[t].st = "value" -> "resumed"
      [] g.chan[t].st = "cancelled" -> "cancelled"
      [] OTHER -> "pending"

\* the phase main is in once the pool has nothing left to poll
PhaseAfter(queue) == IF queue = <<>> THEN "update" ELSE "tasks"

\* game.draw(&assets), then
\* if is_key_down(LeftShift) { if is_key_pressed(I) { game.end_dialogue() } .. },
\* then pool.run_until_stalled() is entered
DrawAndKeys ==
    /\ phase = "draw"
    /\ panicked = ""
    /\ \E shiftI \in BOOLEAN :
          /\ Commit(main_keys(Game_draw(G), shiftI))
          /\ last' = Last("keys", NoKeys, shiftI, 0)
    /\ phase' = PhaseAfter(ready' \o incoming')

\* pool.run_until_stalled(): the spawned futures join the queue behind the woken
\* ones, and the task at the head of the queue is polled; when no task is left to
\* poll the call returns and main goes on to next_frame().await
PollTask ==
    /\ phase = "tasks"
    /\ panicked = ""
    /\ LET queue == ready \o incoming
       IN  Commit(wrap_dialogue([G EXCEPT !.ready = Tail(queue), !.incoming = <<>>],
                                Head(queue)))
    /\ phase' = PhaseAfter(ready' \o incoming')
    /\ last' = [last EXCEPT !.op = PollOutcome(G, Head(ready \o incoming))]

Next == GameUpdate \/ DrawAndKeys \/ PollTask

Spec == Init /\ [][Next]_vars

(***************************************************************************)
(* SpecDialogue: the dialogue-control API of Game called by callers that   *)
(* hold no more than one Receiver each, with any text and choice list, and *)
(* Dialogue::update with any keys while the dialogue is shown.             *)
(***************************************************************************)
Texts == {SubSeq("ABCDEFGHIJ", 1, n) : n \in 0..MaxText}
ChoiceList(n) == [i \in 1..n |-> "CHOICE"]

InitDialogue ==
    /\ file = NoFile
    /\ assets = LoadedAssets
    /\ dialogue = DialogueDefault
    /\ info = [player_class |-> "None", ghost_class |-> "None"]
    /\ world = WorldInit
    /\ chan = [t \in Slots |-> NoChan]
    /\ tasks = [t \in Slots |-> NoTask]
    /\ ready = <<>>
    /\ incoming = <<>>
    /\ borrow = 0
    /\ panicked = ""
    /\ phase = "api"
    /\ last = Last("init", NoKeys, FALSE, 0)

\* a caller takes the first Receiver slot not in use
FreeCaller(c) == chan[c].st = "none" /\ \A b \in Slots : b < c => chan[b].st # "none"

ApiShowText ==
    \E c \in Slots, text \in Texts :
        /\ FreeCaller(c)
        /\ Commit(show_text(G, c, text))
        /\ last' = Last("api", NoKeys, FALSE, 0)
        /\ UNCHANGED phase

ApiShowTextAuto ==
    \E c \in Slots, text \in Texts :
        /\ FreeCaller(c)
        /\ Commit(show_text_auto(G, c, text))
        /\ last' = Last("api", NoKeys, FALSE, 0)
        /\ UNCHANGED phase

ApiShowChoice ==
    \E c \in Slots, n \in 1..MaxChoices :
        /\ FreeCaller(c)
        /\ Commit(show_choice(G, c, ChoiceList(n)))
        /\ last' = [last EXCEPT !.op = "api", !.keys = NoKeys]
        /\ UNCHANGED phase

ApiShowPortrait ==
    \E p \in {NoPortrait, Maribelle} :
        /\ Commit(show_portrait(G, p))
        /\ last' = [last EXCEPT !.op = "api", !.keys = NoKeys]
        /\ UNCHANGED phase

ApiEndDialogue ==
    /\ Commit(end_dialogue(G))
    /\ last' = [last EXCEPT !.op = "api", !.keys = NoKeys]
    /\ UNCHANGED phase

\* Game::update calls Dialogue::update in the frames that start with the dialogue
\* shown; the pool run of the frame before has polled every woken caller.  The
\* text is followed until one update past its full reveal.
ApiUpdate ==
    /\ dialogue.shown
    /\ dialogue.current_progress < MaxText + 1
    /\ \A c \in Slots : chan[c].st \in {"none", "pending"}
    /\ \E k \in Keys(TRUE) :
          /\ Commit(Dialogue_update(G, k.up, k.down, k.space))
          /\ last' = [last EXCEPT !.op = "update", !.keys = k, !.ticks = @ + 1]
    /\ UNCHANGED phase

\* the caller's .await returns: the value, or Err(Canceled)
ApiReceive ==
    \E c \in Slots :
        /\ chan[c].st \in {"value", "cancelled"}
        /\ chan' = [chan EXCEPT ![c] = NoChan]
        /\ last' = [last EXCEPT !.op = "api", !.keys = NoKeys]
        /\ UNCHANGED <<dialogue, info, world, tasks, ready, incoming, borrow, panicked,
                       assets, phase, file>>

NextDialogue ==
    \/ ApiShowText
    \/ ApiShowTextAuto
    \/ ApiShowChoice
    \/ ApiShowPortrait
    \/ ApiEndDialogue
    \/ ApiUpdate
    \/ ApiReceive

SpecDialogue == InitDialogue /\ [][NextDialogue]_vars

(***************************************************************************)
(* The Overworld methods over any World (main.rs 254-478).  A World is a   *)
(* function from entity slots to what the slot holds; an Entity handle is  *)
(* a slot and the generation of the slot it was spawned in (hecs), and a   *)
(* query yields the live entities with the queried components by slot.     *)
(* Coordinates are whole numbers, on which the f32 sums and differences of *)
(* the code are exact.                                                     *)
(***************************************************************************)
Ids == 1..MaxEntities
Coords == 0..MaxCoord
Entity(id, generation) == [id |-> id, generation |-> generation]
NoPos == [some |-> FALSE, x |-> 0, y |-> 0]
Position(x, y) == [some |-> TRUE, x |-> x, y |-> y]
NoCollision == [some |-> FALSE, bounds |-> Rect(0, 0, 0, 0)]
CollisionComponent(bounds) == [some |-> TRUE, bounds |-> bounds]
NoInteractable ==
    [some |-> FALSE, bounds |-> Rect(0, 0, 0, 0), interaction |-> "Lamp", priority |-> 0]
Interactable(bounds, interaction, priority) ==
    [some |-> TRUE, bounds |-> bounds, interaction |-> interaction, priority |-> priority]
NoFollowComponent ==
    [some |-> FALSE, target |-> Entity(0, 0), max_distance |-> 0, speed |-> 0]
FollowComponent(target, max_distance, speed) ==
    [some |-> TRUE, target |-> target, max_distance |-> max_distance, speed |-> speed]
NoAnimation == [some |-> FALSE, id |-> 0, animation |-> "", frame |-> 0]
AnimationComponent(id, animation, frame) ==
    [some |-> TRUE, id |-> id, animation |-> animation, frame |-> frame]

\* SpriteComponent: flip_h, layer and source, None or the frame of the frame table
\* it shows
NoSprite ==
    [some |-> FALSE, flip_h |-> FALSE, source |-> [some |-> FALSE, frame |-> 0], layer |-> 0]
SpriteComponent(flip_h) ==
    [some |-> TRUE, flip_h |-> flip_h, source |-> [some |-> FALSE, frame |-> 0], layer |-> 0]

\* a slot: free (alive = FALSE) or holding an entity of this generation
NoEntity ==
    [alive |-> FALSE, generation |-> 0, pos |-> NoPos, collision |-> NoCollision,
     interactable |-> NoInteractable, follow |-> NoFollowComponent,
     animation |-> NoAnimation, sprite |-> NoSprite]

\* variant: a handle is honoured whenever its slot is occupied, whatever the generation
Contains_any_generation(w, h) == h.id \in Ids /\ w[h.id].alive

\* World::contains / query_one: the handle names a live entity
Contains(w, h) ==
    h.id \in Ids /\ w[h.id].alive /\ w[h.id].generation = h.generation
HandleOf(w, id) == Entity(id, w[id].generation)

RECURSIVE Overworld_InsertByPriority(_, _, _)
\* a stable sort keeps equal keys in their order: e goes after the keys <= its own
Overworld_InsertByPriority(w, sorted, e) ==
    IF sorted = <<>> THEN <<e>>
    ELSE IF w[sorted[Len(sorted)]].interactable.priority <= w[e].interactable.priority
         THEN Append(sorted, e)
         ELSE Append(Overworld_InsertByPriority(w, SubSeq(sorted, 1, Len(sorted) - 1), e),
                     sorted[Len(sorted)])

RECURSIVE Overworld_SortedInteractables(_, _)
\* main.rs 452-457: query_mut::<(&Position, &Interactable)>() over the first i
\* slots, sorted by priority
Overworld_SortedInteractables(w, i) ==
    IF i = 0 THEN <<>>
    ELSE IF w[i].alive /\ w[i].pos.some /\ w[i].interactable.some
         THEN Overworld_InsertByPriority(w, Overworld_SortedInteractables(w, i - 1), i)
         ELSE Overworld_SortedInteractables(w, i - 1)

RECURSIVE Overworld_FirstContaining(_, _, _, _)
\* main.rs 458-477: interactables.iter().rev(), the first whose bounds contain pos
Overworld_FirstContaining(w, sorted, pos, i) ==
    IF i = 0 THEN <<>>
    ELSE LET id == sorted[i]
             it == w[id].interactable
         IN  IF Rect_contains(Rect_offset(it.bounds, w[id].pos), pos)
             THEN <<[entity |-> HandleOf(w, id), interaction |-> it.interaction]>>
             ELSE Overworld_FirstContaining(w, sorted, pos, i - 1)

\* variant: .iter() for .iter().rev()
Overworld_interact_unreversed(w, entity) ==
    IF ~(Contains(w, entity) /\ w[entity.id].pos.some) THEN <<>>
    ELSE LET sorted == Overworld_SortedInteractables(w, MaxEntities)
             reversed == [i \in 1..Len(sorted) |-> sorted[Len(sorted) + 1 - i]]
         IN  Overworld_FirstContaining(w, reversed, w[entity.id].pos, Len(sorted))

\* main.rs 446-478: the events pushed by interact(entity, events)
Overworld_interact(w, entity) ==
    IF ~(Contains(w, entity) /\ w[entity.id].pos.some) THEN <<>>
    ELSE LET sorted == Overworld_SortedInteractables(w, MaxEntities)
         IN  Overworld_FirstContaining(w, sorted, w[entity.id].pos, Len(sorted))

RECURSIVE Overworld_PushOutAll(_, _, _, _)
\* main.rs 288-320: the loop over query_mut::<(&Position, &CollisionComponent)>(),
\* from slot i on; our_box is the box as the iterations before left it
Overworld_PushOutAll(w, entity, our_box, i) ==
    IF i > MaxEntities THEN our_box
    ELSE IF i = entity.id \/ ~(w[i].alive /\ w[i].pos.some /\ w[i].collision.some)
         THEN Overworld_PushOutAll(w, entity, our_box, i + 1)
         ELSE Overworld_PushOutAll(w, entity,
                  PushOut(our_box, Rect_offset(w[i].collision.bounds, w[i].pos)), i + 1)

\* variant: every other box is tested against the box the call started with, and
\* the pushes are added up
Overworld_resolve_penetrations_from_original(w, entity) ==
    IF Contains(w, entity) /\ w[entity.id].pos.some /\ w[entity.id].collision.some
    THEN LET bounds == w[entity.id].collision.bounds
             pos == w[entity.id].pos
             box == Rect_offset(bounds, pos)
             push(i) == IF i # entity.id /\ w[i].alive /\ w[i].pos.some /\ w[i].collision.some
                        THEN PushOut(box, Rect_offset(w[i].collision.bounds, w[i].pos))
                        ELSE box
             RECURSIVE sum(_, _)
             sum(i, v) == IF i > MaxEntities THEN v
                          ELSE sum(i + 1, Vec2(v.x + push(i).x - box.x, v.y + push(i).y - box.y))
             total == sum(1, Vec2(0, 0))
         IN  [w EXCEPT ![entity.id].pos = Position(pos.x + total.x, pos.y + total.y)]
    ELSE w

\* main.rs 281-325
Overworld_resolve_penetrations(w, entity) ==
    IF Contains(w, entity) /\ w[entity.id].pos.some /\ w[entity.id].collision.some
    THEN LET bounds == w[entity.id].collision.bounds
             pos == w[entity.id].pos
             our_box == Overworld_PushOutAll(w, entity, Rect_offset(bounds, pos), 1)
         IN  [w EXCEPT ![entity.id].pos =
                 Position(pos.x + (our_box.x - bounds.x - pos.x),
                          pos.y + (our_box.y - bounds.y - pos.y))]
    ELSE w

(***************************************************************************)
(* SpecInteract: Overworld::interact called once on any World of an actor  *)
(* (slot 1) and interactables (the other slots).                           *)
(***************************************************************************)
InteractableBounds == {Rect(0, 0, 1, 1), Rect(0, 1, 1, 1)}
InteractionOf(id) == IF id % 2 = 0 THEN "Ghost" ELSE "Lamp"
\* the player's slot: free, reused by an entity of a later generation, or holding
\* the player with or without a Position
Actors ==
    {NoEntity, [NoEntity EXCEPT !.alive = TRUE, !.generation = 1, !.pos = Position(1, 0)],
     [NoEntity EXCEPT !.alive = TRUE], [NoEntity EXCEPT !.alive = TRUE, !.pos = Position(1, 0)]}
InteractableEntities ==
    {NoEntity} \cup
    {[NoEntity EXCEPT !.alive = TRUE, !.pos = Position(x, 0),
                      !.interactable = Interactable(b, "Lamp", pr)] :
        x \in Coords, b \in InteractableBounds, pr \in 0..MaxPriority}
\* the interactable in slot id has the kind InteractionOf(id)
OfKind(e, id) ==
    IF e.interactable.some THEN [e EXCEPT !.interactable.interaction = InteractionOf(id)]
    ELSE e

Frozen ==
    /\ dialogue = DialogueDefault
    /\ info = [player_class |-> "None", ghost_class |-> "None"]
    /\ chan = [t \in Slots |-> NoChan]
    /\ tasks = [t \in Slots |-> NoTask]
    /\ ready = <<>>
    /\ incoming = <<>>
    /\ borrow = 0
    /\ panicked = ""

InitInteract ==
    /\ file = NoFile
    /\ Frozen
    /\ assets = LoadedAssets
    /\ \E actor \in Actors, others \in [Ids \ {1} -> InteractableEntities] :
          world = [id \in Ids |-> IF id = 1 THEN actor ELSE OfKind(others[id], id)]
    /\ phase = "call"
    /\ last = [op |-> "init"]

\* self.interact(self.player, events), the player handle being of generation 0
CallInteract ==
    /\ phase = "call"
    /\ phase' = "done"
    /\ last' = [op |-> "interact", entity |-> Entity(1, 0),
                events |-> Overworld_interact(world, Entity(1, 0))]
    /\ UNCHANGED <<dialogue, info, world, chan, tasks, ready, incoming, borrow, panicked,
                   assets, file>>

NextInteract == CallInteract

SpecInteract == InitInteract /\ [][NextInteract]_vars

\* f32::copysign on whole numbers: magnitude m with the sign of d
Copysign(m, d) == IF d < 0 THEN -m ELSE m

\* variant: the target's slot is read whatever entity occupies it
FollowTarget_slot(w, fc) ==
    IF fc.target.id \in Ids THEN w[fc.target.id].pos ELSE NoPos

\* main.rs 259-260: world.query_one::<&Position>(fc.target), then query.get()
FollowTarget(w, fc) ==
    IF Contains(w, fc.target) THEN w[fc.target.id].pos ELSE NoPos

\* variant: a step is of the full speed, however near the target is
Adjustment_full_speed(pos, fc, target_pos) ==
    LET x_diff == target_pos.x - pos.x
        y_diff == target_pos.y - pos.y
    IN  IF Abs(x_diff) + Abs(y_diff) > fc.max_distance
        THEN IF Abs(x_diff) > Abs(y_diff)
             THEN Vec2(Copysign(fc.speed, x_diff), 0)
             ELSE Vec2(0, Copysign(fc.speed, y_diff))
        ELSE Vec2(0, 0)

\* variant: the x axis is taken when the two distances are equal
Adjustment_x_on_tie(pos, fc, target_pos) ==
    LET x_diff == target_pos.x - pos.x
        y_diff == target_pos.y - pos.y
    IN  IF Abs(x_diff) + Abs(y_diff) > fc.max_distance
        THEN IF Abs(x_diff) >= Abs(y_diff)
             THEN Vec2(Copysign(Min(Abs(x_diff), fc.speed), x_diff), 0)
             ELSE Vec2(0, Copysign(Min(Abs(y_diff), fc.speed), y_diff))
        ELSE Vec2(0, 0)

\* main.rs 261-271: the adjustment pushed for one follower; none is no movement
Adjustment(pos, fc, target_pos) ==
    LET x_diff == target_pos.x - pos.x
        y_diff == target_pos.y - pos.y
    IN  IF Abs(x_diff) + Abs(y_diff) > fc.max_distance
        THEN IF Abs(x_diff) > Abs(y_diff)
             THEN Vec2(Copysign(Min(Abs(x_diff), fc.speed), x_diff), 0)
             ELSE Vec2(0, Copysign(Min(Abs(y_diff), fc.speed), y_diff))
        ELSE Vec2(0, 0)

RECURSIVE Overworld_follow_in_place(_, _)
\* variant: each follower is moved as soon as its adjustment is computed, from
\* slot i on
Overworld_follow_in_place(w, i) ==
    IF i > MaxEntities THEN w
    ELSE IF w[i].alive /\ w[i].pos.some /\ w[i].follow.some
            /\ FollowTarget(w, w[i].follow).some
         THEN LET adjustment == Adjustment(w[i].pos, w[i].follow,
                                           FollowTarget(w, w[i].follow))
              IN  Overworld_follow_in_place(
                      [w EXCEPT ![i].pos = Position(@.x + adjustment.x, @.y + adjustment.y)],
                      i + 1)
         ELSE Overworld_follow_in_place(w, i + 1)

\* variant of Overworld::follow: the adjustments are applied one by one
Overworld_follow_sequential(w) == Overworld_follow_in_place(w, 1)

\* main.rs 254-279: the adjustments are all computed before any is applied
Overworld_follow(w) ==
    [id \in Ids |->
        IF w[id].alive /\ w[id].pos.some /\ w[id].follow.some
           /\ FollowTarget(w, w[id].follow).some
        THEN LET adjustment == Adjustment(w[id].pos, w[id].follow,
                                          FollowTarget(w, w[id].follow))
             IN  [w[id] EXCEPT !.pos = Position(@.x + adjustment.x, @.y + adjustment.y)]
        ELSE w[id]]

\* variant: the frame wraps at the length of the animation in the sprite the
\* component names
Overworld_TickFrames_own(w, a) ==
    [id \in Ids |->
        IF w[id].alive /\ w[id].animation.some
        THEN IF w[id].animation.frame + 1
                   >= get_anim_length(Assets_get(a, w[id].animation.id),
                                      w[id].animation.animation)
             THEN [w[id] EXCEPT !.animation.frame = 0]
             ELSE [w[id] EXCEPT !.animation.frame = @ + 1]
        ELSE w[id]]

\* main.rs 357-366: the first loop of tick_animations
Overworld_TickFrames(w, a) ==
    [id \in Ids |->
        IF w[id].alive /\ w[id].animation.some
        THEN IF w[id].animation.frame + 1
                   >= get_anim_length(Assets_get(a, a.char_sprite), w[id].animation.animation)
             THEN [w[id] EXCEPT !.animation.frame = 0]
             ELSE [w[id] EXCEPT !.animation.frame = @ + 1]
        ELSE w[id]]

RECURSIVE Overworld_TickSprites(_, _, _)
\* main.rs 368-382: the second loop of tick_animations, from slot i on; a panic
\* in get_anim_frame ends it
Overworld_TickSprites(w, a, i) ==
    IF i > MaxEntities THEN [world |-> w, panicked |-> ""]
    ELSE IF w[i].alive /\ w[i].sprite.some /\ w[i].animation.some
         THEN LET frame_info == get_anim_frame(Assets_get(a, w[i].animation.id),
                                               w[i].animation.animation,
                                               w[i].animation.frame)
              IN  IF frame_info.ok
                  THEN Overworld_TickSprites(
                          [w EXCEPT ![i].sprite.source =
                              [some |-> TRUE, frame |-> frame_info.frame]], a, i + 1)
                  ELSE [world |-> w, panicked |-> "index out of bounds"]
         ELSE Overworld_TickSprites(w, a, i + 1)

\* main.rs 356-383
Overworld_tick_animations(w, a) == Overworld_TickSprites(Overworld_TickFrames(w, a), a, 1)

\* main.rs 393-412: one arrow key, held: the animation named, the flip, the step
Overworld_MoveBy(e, held, animation, flip_h, dx, dy) ==
    IF held
    THEN [e EXCEPT !.animation.animation = animation, !.sprite.flip_h = flip_h,
                   !.pos.x = @ + dx, !.pos.y = @ + dy]
    ELSE e

\* main.rs 387-413: the keys held move self.player and name its animation, Up,
\* Down, Left and Right in turn
Overworld_Move(w, player, keys) ==
    IF Contains(w, player) /\ w[player.id].pos.some /\ w[player.id].sprite.some
       /\ w[player.id].animation.some
    THEN [w EXCEPT ![player.id] =
             Overworld_MoveBy(
                 Overworld_MoveBy(
                     Overworld_MoveBy(
                         Overworld_MoveBy(@, keys.up, "Back", FALSE, 0, -1),
                         keys.down, "Idle", FALSE, 0, 1),
                     keys.left, "Right", TRUE, -1, 0),
                 keys.right, "Right", FALSE, 1, 0)]
    ELSE w

\* variant: the interaction is dispatched before the player is moved
Overworld_update_world_interacts_first(w, a, player, keys, allow_input) ==
    LET moved == IF allow_input THEN Overworld_follow(Overworld_Move(w, player, keys)) ELSE w
        resolved == Overworld_resolve_penetrations(moved, player)
        events == IF allow_input /\ keys.space
                  THEN Overworld_interact(w, player) ELSE <<>>
        ticked == Overworld_tick_animations(resolved, a)
    IN  [world |-> ticked.world, events |-> events, panicked |-> ticked.panicked]

\* variant: the collision resolution too waits for the dialogue to be hidden
Overworld_update_world_frozen(w, a, player, keys, allow_input) ==
    LET moved == IF allow_input THEN Overworld_follow(Overworld_Move(w, player, keys)) ELSE w
        resolved == IF allow_input THEN Overworld_resolve_penetrations(moved, player)
                    ELSE moved
        events == IF allow_input /\ keys.space
                  THEN Overworld_interact(resolved, player) ELSE <<>>
        ticked == Overworld_tick_animations(resolved, a)
    IN  [world |-> ticked.world, events |-> events, panicked |-> ticked.panicked]

\* main.rs 385-423: Overworld::update, with the events it pushes
Overworld_update_world(w, a, player, keys, allow_input) ==
    LET moved == IF allow_input THEN Overworld_follow(Overworld_Move(w, player, keys)) ELSE w
        resolved == Overworld_resolve_penetrations(moved, player)
        events == IF allow_input /\ keys.space
                  THEN Overworld_interact(resolved, player) ELSE <<>>
        ticked == Overworld_tick_animations(resolved, a)
    IN  [world |-> ticked.world, events |-> events, panicked |-> ticked.panicked]

(***************************************************************************)
(* SpecCollide: Overworld::resolve_penetrations called once for the handle *)
(* of slot 1, on any World: the subject with or without its components,    *)
(* the other slots with or without a box.                                  *)
(***************************************************************************)
SubjectBounds == {Rect(0, 0, 2, 2), Rect(-1, 1, 2, 1)}
ObstacleBounds == {Rect(0, 0, 1, 1), Rect(0, 1, 2, 1)}
Subjects ==
    {NoEntity,
     [NoEntity EXCEPT !.alive = TRUE, !.generation = 1, !.pos = Position(0, 0),
                      !.collision = CollisionComponent(Rect(0, 0, 2, 2))],
     [NoEntity EXCEPT !.alive = TRUE, !.collision = CollisionComponent(Rect(0, 0, 2, 2))],
     [NoEntity EXCEPT !.alive = TRUE, !.pos = Position(0, 0)]}
    \cup {[NoEntity EXCEPT !.alive = TRUE, !.pos = Position(x, y),
                           !.collision = CollisionComponent(b)] :
            x \in Coords, y \in Coords, b \in SubjectBounds}
Obstacles ==
    {NoEntity,
     [NoEntity EXCEPT !.alive = TRUE, !.collision = CollisionComponent(Rect(0, 0, 1, 1))],
     [NoEntity EXCEPT !.alive = TRUE, !.pos = Position(0, 0)]}
    \cup {[NoEntity EXCEPT !.alive = TRUE, !.pos = Position(x, y),
                           !.collision = CollisionComponent(b)] :
            x \in Coords, y \in 0..MaxY, b \in ObstacleBounds}

InitCollide ==
    /\ file = NoFile
    /\ Frozen
    /\ assets = LoadedAssets
    /\ \E subject \in Subjects, others \in [Ids \ {1} -> Obstacles] :
          world = [id \in Ids |-> IF id = 1 THEN subject ELSE others[id]]
    /\ phase = "call"
    /\ last = [op |-> "init"]

\* self.resolve_penetrations(self.player)
CallResolvePenetrations ==
    /\ phase = "call"
    /\ phase' = "done"
    /\ world' = Overworld_resolve_penetrations(world, Entity(1, 0))
    /\ last' = [op |-> "resolve_penetrations", entity |-> Entity(1, 0), before |-> world]
    /\ UNCHANGED <<dialogue, info, chan, tasks, ready, incoming, borrow, panicked,
                   assets, file>>

NextCollide == CallResolvePenetrations

SpecCollide == InitCollide /\ [][NextCollide]_vars

(***************************************************************************)
(* SpecFollow: Overworld::follow called once on any World whose slot 1 is  *)
(* a follower of the entity first spawned in slot 2; slot 2 holds that     *)
(* entity, nothing, or a later entity; the other slots hold bystanders,    *)
(* some of them followers of slot 1.                                       *)
(***************************************************************************)
Followers ==
    {[NoEntity EXCEPT !.alive = TRUE, !.pos = p,
                      !.follow = FollowComponent(Entity(2, 0), d, v)] :
        p \in {NoPos} \cup {Position(x, y) : x \in Coords, y \in Coords},
        d \in {0, MaxCoord}, v \in {1, MaxCoord}}
Targets ==
    {NoEntity, [NoEntity EXCEPT !.alive = TRUE]}
    \cup {[NoEntity EXCEPT !.alive = TRUE, !.generation = g, !.pos = Position(x, y)] :
            g \in {0, 1}, x \in Coords, y \in Coords}
Bystanders ==
    {NoEntity}
    \cup {[NoEntity EXCEPT !.alive = TRUE, !.pos = Position(x, 0), !.follow = f] :
            x \in Coords, f \in {NoFollowComponent, FollowComponent(Entity(1, 0), 0, 1)}}

InitFollow ==
    /\ file = NoFile
    /\ Frozen
    /\ assets = LoadedAssets
    /\ \E follower \in Followers, target \in Targets,
          others \in [Ids \ {1, 2} -> Bystanders] :
          world = [id \in Ids |-> IF id = 1 THEN follower
                                  ELSE IF id = 2 THEN target ELSE others[id]]
    /\ phase = "call"
    /\ last = [op |-> "init"]

\* self.follow()
CallFollow ==
    /\ phase = "call"
    /\ phase' = "done"
    /\ world' = Overworld_follow(world)
    /\ last' = [op |-> "follow", before |-> world]
    /\ UNCHANGED <<dialogue, info, chan, tasks, ready, incoming, borrow, panicked,
                   assets, file>>

NextFollow == CallFollow

SpecFollow == InitFollow /\ [][NextFollow]_vars

(***************************************************************************)
(* SpecChase: Overworld::follow called frame after frame on a World of a   *)
(* leader (slot 1) that stands or follows a standing goal (slot 3), and a  *)
(* follower of the leader (slot 2).  The calls go on for ever.             *)
(***************************************************************************)
ChaseGoals ==
    {NoEntity} \cup {[NoEntity EXCEPT !.alive = TRUE, !.pos = Position(x, 0)] : x \in Coords}
ChaseLeaders ==
    {[NoEntity EXCEPT !.alive = TRUE, !.pos = Position(x, y), !.follow = f] :
        x \in Coords, y \in Coords,
        f \in {NoFollowComponent, FollowComponent(Entity(3, 0), 0, 1)}}
ChaseFollowers ==
    {[NoEntity EXCEPT !.alive = TRUE, !.pos = Position(x, y),
                      !.follow = FollowComponent(Entity(1, 0), d, v)] :
        x \in Coords, y \in Coords, d \in {0, 1}, v \in {1, 2}}

InitChase ==
    /\ file = NoFile
    /\ Frozen
    /\ assets = LoadedAssets
    /\ \E leader \in ChaseLeaders, follower \in ChaseFollowers, goal \in ChaseGoals :
          world = [id \in Ids |-> CASE id = 1 -> leader [] id = 2 -> follower
                                    [] id = 3 -> goal [] OTHER -> NoEntity]
    /\ phase = "call"
    /\ last = [op |-> "init", before |-> world]

\* self.follow(), once in a frame
CallFollowStep ==
    /\ phase = "call"
    /\ world' = Overworld_follow(world)
    /\ last' = [op |-> "follow", before |-> world]
    /\ UNCHANGED <<dialogue, info, chan, tasks, ready, incoming, borrow, panicked,
                   assets, file, phase>>

NextChase == CallFollowStep

\* the frame loop of main never ends: the call is made again and again
SpecChase == InitChase /\ [][NextChase]_vars /\ WF_vars(CallFollowStep)

(***************************************************************************)
(* SpecTick: one Overworld::update with input allowed and any arrow keys   *)
(* held, on a World of the player (slot 1) and two standing boxes, none of *)
(* which the player's box intersects in a positive area.                   *)
(***************************************************************************)
\* the world-space collision box of the entity in slot id
WorldBox(w, id) == Rect_offset(w[id].collision.bounds, w[id].pos)
\* the two boxes share a region of positive area
Intersects(r, o) ==
    /\ Rect_left(r) < Rect_right(o)
    /\ Rect_right(r) > Rect_left(o)
    /\ Rect_top(r) < Rect_bottom(o)
    /\ Rect_bottom(r) > Rect_top(o)
\* the player's box is clear of every other collision box
Clear(w) ==
    \A id \in Ids \ {1} :
        (w[id].alive /\ w[id].pos.some /\ w[id].collision.some) =>
            ~Intersects(WorldBox(w, 1), WorldBox(w, id))

TickPlayers ==
    {[NoEntity EXCEPT !.alive = TRUE, !.pos = Position(x, y),
                      !.sprite = SpriteComponent(FALSE),
                      !.animation = AnimationComponent(0, "Idle", 0),
                      !.collision = CollisionComponent(Rect(0, 0, 1, 1))] :
        x \in Coords, y \in Coords}
TickBoxes ==
    {NoEntity}
    \cup {[NoEntity EXCEPT !.alive = TRUE, !.pos = Position(x, y),
                           !.collision = CollisionComponent(b)] :
            x \in Coords, y \in Coords, b \in {Rect(0, 0, 1, 1), Rect(0, 0, 2, 1)}}
TickKeys == {k \in Keys(FALSE) : ~k.space}

InitTick ==
    /\ file = NoFile
    /\ Frozen
    /\ assets = LoadedAssets
    /\ \E first \in TickPlayers, second \in TickBoxes, third \in TickBoxes :
          world = [id \in Ids |-> CASE id = 1 -> first [] id = 2 -> second
                                    [] id = 3 -> third [] OTHER -> NoEntity]
    /\ Clear(world)
    /\ phase = "call"
    /\ last = [op |-> "init", keys |-> NoKeys, before |-> world]

\* this.overworld.update(assets, &mut events, true), the keys held being k
CallTick ==
    /\ phase = "call"
    /\ phase' = "done"
    /\ \E k \in TickKeys :
          LET ow == Overworld_update_world(world, assets, Entity(1, 0), k, TRUE)
          IN  /\ world' = ow.world
              /\ panicked' = ow.panicked
              /\ last' = [op |-> "update", keys |-> k, before |-> world]
    /\ UNCHANGED <<dialogue, info, chan, tasks, ready, incoming, borrow, assets, file>>

NextTick == CallTick

SpecTick == InitTick /\ [][NextTick]_vars

(***************************************************************************)
(* SpecAnim: Overworld::update called MaxTicks times, with and without     *)
(* input allowed, on a World of the player (slot 1, as Overworld::new      *)
(* spawns it) and animated entities that name either sprite, with any      *)
(* sprites loaded.                                                         *)
(***************************************************************************)
\* the i-th entry of an expanded sequence over a table of n frames
Expanded(len, n) == [i \in 1..len |-> (n - i) % n]
Sequences(n) ==
    IF n = 0 THEN {NoSequence, Sequence(<<>>)}
    ELSE {NoSequence} \cup {Sequence(Expanded(len, n)) : len \in 0..MaxAnimLen}
CharSprites ==
    {AnimatedSprite(n, [name \in AnimationNames |-> IF name = "Idle" THEN idle ELSE back]) :
        n \in {MaxFrames}, idle \in Sequences(MaxFrames), back \in Sequences(MaxFrames)}
GhostSprites ==
    UNION {{AnimatedSprite(n, [name \in AnimationNames |->
                                  IF name = "Idle" THEN idle ELSE NoSequence]) :
               idle \in Sequences(n)} : n \in {0, MaxFrames}}
PlayerEntity ==
    [NoEntity EXCEPT !.alive = TRUE, !.pos = Position(0, 0),
                     !.sprite = SpriteComponent(FALSE),
                     !.animation = AnimationComponent(0, "Idle", 0)]
Animated ==
    {NoEntity}
    \cup {[NoEntity EXCEPT !.alive = TRUE, !.sprite = sp,
                           !.animation = AnimationComponent(id, "Idle", 0)] :
            sp \in {NoSprite, SpriteComponent(FALSE)}, id \in {0, 1}}
Decorations ==
    {NoEntity,
     [NoEntity EXCEPT !.alive = TRUE, !.animation = AnimationComponent(1, "Idle", 0)]}
UpdateKeys == {NoKeys, [NoKeys EXCEPT !.up = TRUE], [NoKeys EXCEPT !.space = TRUE]}

InitAnim ==
    /\ file = NoFile
    /\ Frozen
    /\ \E char \in CharSprites, ghost \in GhostSprites :
          assets = [char_sprite |-> 0, animated_sprites |-> <<char, ghost>>]
    /\ \E second \in Animated, others \in [Ids \ {1, 2} -> Decorations] :
          world = [id \in Ids |-> IF id = 1 THEN PlayerEntity
                                  ELSE IF id = 2 THEN second ELSE others[id]]
    /\ phase = "call"
    /\ last = [op |-> "init", ticks |-> 0, allow_input |-> TRUE, held |-> 0, start |-> world]

\* this.overworld.update(assets, &mut events, !dialogue); ticks counts the calls,
\* held those made with input not allowed
CallUpdate ==
    /\ phase = "call"
    /\ panicked = ""
    /\ last.ticks < MaxTicks
    /\ \E keys \in UpdateKeys, allow_input \in BOOLEAN :
          /\ (keys.up /\ allow_input) => world[1].pos.y > -MaxCoord
          /\ LET ow == Overworld_update_world(world, assets, Entity(1, 0), keys, allow_input)
             IN  /\ world' = ow.world
                 /\ panicked' = ow.panicked
                 /\ last' = [last EXCEPT !.op = "update", !.ticks = @ + 1,
                                         !.allow_input = allow_input,
                                         !.held = IF allow_input THEN @ ELSE @ + 1]
    /\ UNCHANGED <<dialogue, info, chan, tasks, ready, incoming, borrow, assets, phase, file>>

NextAnim == CallUpdate

SpecAnim == InitAnim /\ [][NextAnim]_vars

(***************************************************************************)
(* SpecSprite: get_anim_length and get_anim_frame called once on any       *)
(* sprite, with a name that is or is not in its table and any frame.       *)
(***************************************************************************)
Sprites ==
    UNION {{AnimatedSprite(n, [name \in AnimationNames |->
                                  IF name = "Idle" THEN idle ELSE back]) :
               idle \in Sequences(n), back \in Sequences(n)} : n \in {0, MaxFrames}}
LookupNames == AnimationNames \cup {"Float"}

InitSprite ==
    /\ file = NoFile
    /\ Frozen
    /\ \E sprite \in Sprites :
          assets = [LoadedAssets EXCEPT !.animated_sprites[1] = sprite]
    /\ world = [id \in Ids |-> NoEntity]
    /\ phase = "call"
    /\ last = [op |-> "init"]

\* sprite.get_anim_length(anim) and sprite.get_anim_frame(anim, frame)
CallGetAnim ==
    /\ phase = "call"
    /\ phase' = "done"
    /\ \E anim \in LookupNames, frame \in 0..(MaxAnimLen + 1) :
          LET sprite == Assets_get(assets, assets.char_sprite)
              frame_info == get_anim_frame(sprite, anim, frame)
          IN  /\ last' = [op |-> "get_anim", anim |-> anim, frame |-> frame,
                          length |-> get_anim_length(sprite, anim),
                          frame_info |-> frame_info]
              /\ panicked' = IF frame_info.ok THEN "" ELSE "index out of bounds"
    /\ UNCHANGED <<dialogue, info, world, chan, tasks, ready, incoming, borrow, assets, file>>

NextSprite == CallGetAnim

SpecSprite == InitSprite /\ [][NextSprite]_vars

(***************************************************************************)
(* SpecConvert: Assets::new loads its two sprite sheets; each is any sheet *)
(* of up to MaxFrames frames with whole durations and at most one frame    *)
(* tag, converted by SpriteSheet::convert.                                 *)
(***************************************************************************)
Fps == 60
MsPerSecond == 1000
Durations == {16, 25, 34}

RECURSIVE Repeat(_, _)
\* the inner loop of FrameTag::convert: output.push(f), count times
Repeat(f, count) == IF count = 0 THEN <<>> ELSE <<f>> \o Repeat(f, count - 1)

\* animated_sprite.rs 68, 72: (frame.duration * frame_per_ms) as usize; the cast
\* drops the fraction.  On whole durations the f32 product has the whole part of
\* the exact one.
Entries(duration, fps) == (duration * fps) \div MsPerSecond

RECURSIVE FrameTag_convert(_, _, _, _)
\* animated_sprite.rs 66-78: the frames f..to of the tag; frames is the sheet's
\* sequence of durations, frame 0 first
FrameTag_convert(frames, f, to, fps) ==
    IF f > to THEN <<>>
    ELSE Repeat(f, Entries(frames[f + 1], fps)) \o FrameTag_convert(frames, f + 1, to, fps)

\* animated_sprite.rs 93-108: a sheet is its frames' durations and its frame tags
SpriteSheet_convert(sheet) ==
    AnimatedSprite(Len(sheet.frames),
        [name \in AnimationNames |->
            IF \E i \in 1..Len(sheet.tags) : sheet.tags[i].name = name
            THEN LET t == sheet.tags[CHOOSE i \in 1..Len(sheet.tags) : sheet.tags[i].name = name]
                 IN  Sequence(FrameTag_convert(sheet.frames, t.from, t.to, Fps))
            ELSE NoSequence])

SpriteSheets ==
    UNION {{[frames |-> d, tags |-> t] :
               d \in [1..n -> Durations],
               t \in {<<>>} \cup {<<[name |-> "Idle", from |-> from, to |-> to]>> :
                                    from \in 0..(n - 1), to \in 0..(n - 1)}} :
           n \in 0..MaxFrames}

InitConvert ==
    /\ file = NoFile
    /\ Frozen
    /\ assets = [char_sprite |-> 0, animated_sprites |-> <<>>]
    /\ world = [id \in Ids |-> NoEntity]
    /\ phase = "call"
    /\ last = [op |-> "init"]

\* AssetWrapper::new(path): AnimatedSprite::from_file, which converts the sheet read
CallConvert ==
    /\ phase = "call"
    /\ Len(assets.animated_sprites) < 2
    /\ \E sheet \in SpriteSheets :
          /\ assets' = [assets EXCEPT !.animated_sprites = Append(@, SpriteSheet_convert(sheet))]
          /\ last' = [op |-> "convert", sheet |-> sheet]
    /\ UNCHANGED <<dialogue, info, world, chan, tasks, ready, incoming, borrow, panicked,
                   phase, file>>

NextConvert == CallConvert

SpecConvert == InitConvert /\ [][NextConvert]_vars

\* variant: the drawables are compared by y first and by layer second
Overworld_DrawsBefore_by_y(a, b) ==
    \/ a.pos.y < b.pos.y
    \/ (a.pos.y = b.pos.y /\ a.sprite.layer <= b.sprite.layer)

\* main.rs 330-336: the comparison of sort_by is Less or Equal: layer, then y
Overworld_DrawsBefore(a, b) ==
    \/ a.sprite.layer < b.sprite.layer
    \/ (a.sprite.layer = b.sprite.layer /\ a.pos.y <= b.pos.y)

RECURSIVE Overworld_InsertDrawable(_, _, _)
\* sort_by is stable: e goes after the drawables that are not after it
Overworld_InsertDrawable(w, sorted, e) ==
    IF sorted = <<>> THEN <<e>>
    ELSE IF Overworld_DrawsBefore(w[sorted[Len(sorted)]], w[e])
         THEN Append(sorted, e)
         ELSE Append(Overworld_InsertDrawable(w, SubSeq(sorted, 1, Len(sorted) - 1), e),
                     sorted[Len(sorted)])

RECURSIVE Overworld_draw(_, _)
\* main.rs 327-354: the entities drawn, first to last, among the first i slots
Overworld_draw(w, i) ==
    IF i = 0 THEN <<>>
    ELSE IF w[i].alive /\ w[i].pos.some /\ w[i].sprite.some
         THEN Overworld_InsertDrawable(w, Overworld_draw(w, i - 1), i)
         ELSE Overworld_draw(w, i - 1)

(***************************************************************************)
(* Saving and loading (editor.rs 84-238).  The document written to         *)
(* assets/overworld.json holds the player handle and one row per entity,   *)
(* keyed by its handle; a row holds the components that have a             *)
(* ComponentId.  An Overworld is its World and its player handle.          *)
(***************************************************************************)
\* editor.rs 186-206: serialize_entity, the row of the entity in slot id
OverworldSerializeContext_serialize_entity(w, id) ==
    [entity |-> HandleOf(w, id), unknown |-> FALSE,
     Position |-> w[id].pos, Sprite |-> w[id].sprite,
     Collision |-> w[id].collision, Animation |-> w[id].animation]

RECURSIVE SerializeWorld(_, _)
\* editor.rs 98-112: hecs::serialize::row::serialize, the rows from slot i on
SerializeWorld(w, i) ==
    IF i > MaxEntities THEN <<>>
    ELSE IF w[i].alive
         THEN <<OverworldSerializeContext_serialize_entity(w, i)>> \o SerializeWorld(w, i + 1)
         ELSE SerializeWorld(w, i + 1)

\* editor.rs 84-96: impl Serialize for Overworld
Overworld_serialize(o) ==
    [kind |-> "json", player |-> [some |-> TRUE, entity |-> o.player],
     world |-> SerializeWorld(o.world, 1)]

\* editor.rs 141-165: deserialize_entity, the entity a row builds
OverworldDeserializeContext_deserialize_entity(row) ==
    [NoEntity EXCEPT !.alive = TRUE, !.generation = row.entity.generation,
                     !.pos = row.Position, !.sprite = row.Sprite,
                     !.collision = row.Collision, !.animation = row.Animation]

RECURSIVE deserialize_world(_, _, _)
\* editor.rs 167-173: hecs::serialize::row::deserialize spawns each row at its
\* handle, from row i on
deserialize_world(rows, w, i) ==
    IF i > Len(rows) THEN w
    ELSE deserialize_world(rows,
            [w EXCEPT ![rows[i].entity.id] =
                OverworldDeserializeContext_deserialize_entity(rows[i])], i + 1)

\* main.rs 167-172: #[derive(Deserialize)] on Overworld, from the bytes of the file:
\* no file, bytes that are no JSON, a document without the player field and a row
\* with a key that is no ComponentId are errors
Overworld_deserialize(doc) ==
    IF doc.kind # "json" THEN [ok |-> FALSE]
    ELSE IF ~doc.player.some THEN [ok |-> FALSE]
    ELSE IF \E i \in 1..Len(doc.world) : doc.world[i].unknown THEN [ok |-> FALSE]
    ELSE [ok |-> TRUE,
          overworld |-> [world |-> deserialize_world(doc.world, [id \in Ids |-> NoEntity], 1),
                         player |-> doc.player.entity]]

\* editor.rs 217-233: OverworldEditor::save
OverworldEditor_save(o) == Overworld_serialize(o)

\* variant: the entities read before the error replace the World
OverworldEditor_load_partial(o, doc) ==
    LET r == Overworld_deserialize(doc)
    IN  IF r.ok THEN [ok |-> TRUE, overworld |-> r.overworld]
        ELSE [ok |-> FALSE,
              overworld |-> IF doc.kind = "json"
                            THEN [o EXCEPT !.world = [id \in Ids |-> NoEntity]]
                            ELSE o]

\* editor.rs 235-238: OverworldEditor::load; *overworld is assigned when the
\* document deserializes, else the error is returned
OverworldEditor_load(o, doc) ==
    LET r == Overworld_deserialize(doc)
    IN  IF r.ok THEN [ok |-> TRUE, overworld |-> r.overworld]
        ELSE [ok |-> FALSE, overworld |-> o]

(***************************************************************************)
(* SpecEditor: the Save and Load buttons of OverworldEditor::update, on    *)
(* any Overworld and any file.                                             *)
(***************************************************************************)
SavedPlayer ==
    [PlayerEntity EXCEPT !.collision = CollisionComponent(Rect(-1, 1, 2, 1))]
SavedEntities ==
    {NoEntity,
     [NoEntity EXCEPT !.alive = TRUE],
     [NoEntity EXCEPT !.alive = TRUE, !.generation = 1, !.pos = Position(1, 0)],
     [NoEntity EXCEPT !.alive = TRUE, !.pos = Position(1, 0),
                      !.collision = CollisionComponent(Rect(0, 0, 1, 1))],
     [NoEntity EXCEPT !.alive = TRUE, !.pos = Position(1, 0),
                      !.interactable = Interactable(Rect(0, 0, 1, 1), "Lamp", MaxPriority)],
     [NoEntity EXCEPT !.alive = TRUE, !.pos = Position(1, 0),
                      !.follow = FollowComponent(Entity(1, 0), 1, 1)]}
Overworlds ==
    {[world |-> [id \in Ids |-> IF id = 1 THEN SavedPlayer ELSE others[id]],
      player |-> Entity(1, 0)] : others \in [Ids \ {1} -> SavedEntities]}
\* what the file may hold: nothing, bytes that are no JSON, or a document, the
\* player field or a row's key possibly wrong
Documents ==
    {NoFile, [kind |-> "garbage"]}
    \cup {Overworld_serialize(o) : o \in Overworlds}
    \cup {[Overworld_serialize(o) EXCEPT !.player = [some |-> FALSE, entity |-> Entity(0, 0)]] :
            o \in Overworlds}
    \cup {[Overworld_serialize(o) EXCEPT !.world[1].unknown = TRUE] : o \in Overworlds}

InitEditor ==
    /\ Frozen
    /\ assets = LoadedAssets
    /\ world \in Overworlds
    /\ file \in Documents
    /\ phase = "call"
    /\ last = [op |-> "init", ok |-> TRUE, before |-> world, saved |-> FALSE, loads |-> 0]

\* editor.rs 329-332: the Save button
EditorSave ==
    /\ phase = "call"
    /\ file' = OverworldEditor_save(world)
    /\ last' = [op |-> "save", ok |-> TRUE, before |-> world, saved |-> TRUE, loads |-> 0]
    /\ UNCHANGED <<dialogue, info, world, chan, tasks, ready, incoming, borrow, panicked,
                   assets, phase>>

\* editor.rs 334-336, 408-412: the Load button; the error is printed.  saved
\* tells that the file is the one the last Save wrote; loads counts the calls
\* of load the click made
EditorLoad ==
    /\ phase = "call"
    /\ LET r == OverworldEditor_load(world, file)
       IN  /\ world' = r.overworld
           /\ last' = [op |-> "load", ok |-> r.ok, before |-> world, saved |-> last.saved,
                       loads |-> 1]
    /\ UNCHANGED <<dialogue, info, chan, tasks, ready, incoming, borrow, panicked,
                   assets, file, phase>>

NextEditor == EditorSave \/ EditorLoad

SpecEditor == InitEditor /\ [][NextEditor]_vars

(***************************************************************************)
(* SpecEdit: the buttons and the Select tool of OverworldEditor::update,   *)
(* one click a frame, on any Overworld and any file.  world holds the      *)
(* Overworld and the OverworldEditor that edits it.  A despawned slot      *)
(* keeps its generation, one more than the entity it held (hecs), so the   *)
(* handle of a despawned entity names no entity spawned later.             *)
(***************************************************************************)
MaxGeneration == 2   \* an entity of this generation is not despawned

NoSelection == [some |-> FALSE, entity |-> Entity(0, 0)]
Selected(entity) == [some |-> TRUE, entity |-> entity]

\* hecs World::despawn: Err(NoSuchEntity) unless the handle names a live entity
World_despawn(w, entity) ==
    IF Contains(w, entity)
    THEN [ok |-> TRUE,
          world |-> [w EXCEPT ![entity.id] =
                        [NoEntity EXCEPT !.generation = entity.generation + 1]]]
    ELSE [ok |-> FALSE, world |-> w]

\* hecs World::spawn: the components go to a free slot, at the slot's generation
World_spawn(w, id, e) ==
    [w EXCEPT ![id] = [e EXCEPT !.alive = TRUE, !.generation = w[id].generation]]
World_free(w) == {id \in Ids : ~w[id].alive}

\* editor.rs 126-138: duplicate_entity, the components with a ComponentId are cloned
duplicate_entity(e) ==
    [NoEntity EXCEPT !.pos = e.pos, !.sprite = e.sprite, !.collision = e.collision,
                     !.animation = e.animation]

RECURSIVE Overworld_TopmostAt(_, _, _, _)
\* main.rs 436-441: drawables.iter().rev(), the first whose sprite bounds (a
\* texture of one unit) contain the cursor
Overworld_TopmostAt(w, sorted, cursor, i) ==
    IF i = 0 THEN NoSelection
    ELSE IF Rect_contains(Rect_offset(Rect(0, 0, 1, 1), w[sorted[i]].pos), cursor)
         THEN Selected(HandleOf(w, sorted[i]))
         ELSE Overworld_TopmostAt(w, sorted, cursor, i - 1)

\* main.rs 425-444: query_cursor_pos, the entity of the result
Overworld_query_cursor_pos(w, cursor) ==
    LET sorted == Overworld_draw(w, MaxEntities)
    IN  Overworld_TopmostAt(w, sorted, cursor, Len(sorted))

\* editor.rs 292-295: the Delete button, despawn(entity).unwrap()
OverworldEditor_Delete(w, entity) == World_despawn(w, entity)

EditedFiles == {NoFile} \cup {Overworld_serialize(o) : o \in Overworlds}

InitEdit ==
    /\ Frozen
    /\ assets = LoadedAssets
    /\ \E o \in Overworlds : world = [overworld |-> o, editor |-> [selected |-> NoSelection]]
    /\ file \in EditedFiles
    /\ phase = "call"
    /\ last = [op |-> "init", before |-> world]

\* editor.rs 291-295: if let Some(entity) = self.selected, the Delete button is
\* drawn; a click despawns the selection and unwraps the result.  The selection
\* is left as it is.
EditDelete ==
    /\ panicked = ""
    /\ world.editor.selected.some
    /\ world.editor.selected.entity.generation < MaxGeneration
    /\ LET r == OverworldEditor_Delete(world.overworld.world, world.editor.selected.entity)
       IN  /\ world' = [world EXCEPT !.overworld.world = r.world]
           /\ panicked' = IF r.ok THEN "" ELSE "unwrap on Err(NoSuchEntity)"
    /\ last' = [op |-> "delete", before |-> world]
    /\ UNCHANGED <<dialogue, info, chan, tasks, ready, incoming, borrow, assets, file, phase>>

\* editor.rs 296-306: the Duplicate button is drawn when World::entity finds the
\* selection; a click spawns a copy
EditDuplicate ==
    /\ panicked = ""
    /\ world.editor.selected.some
    /\ Contains(world.overworld.world, world.editor.selected.entity)
    /\ \E id \in World_free(world.overworld.world) :
          world' = [world EXCEPT !.overworld.world =
                       World_spawn(@, id,
                           duplicate_entity(@[world.editor.selected.entity.id]))]
    /\ last' = [op |-> "duplicate", before |-> world]
    /\ UNCHANGED <<dialogue, info, chan, tasks, ready, incoming, borrow, panicked, assets,
                   file, phase>>

\* editor.rs 308-327: the "Spawn new thing" button: a sprite of layer -1 at the
\* player's Position, if the player has one
EditSpawn ==
    /\ panicked = ""
    /\ LET w == world.overworld.world
           player == world.overworld.player
       IN  IF Contains(w, player) /\ w[player.id].pos.some
           THEN \E id \in World_free(w) :
                   world' = [world EXCEPT !.overworld.world =
                                World_spawn(@, id,
                                    [NoEntity EXCEPT !.pos = w[player.id].pos,
                                         !.sprite = [SpriteComponent(FALSE) EXCEPT
                                                        !.layer = -1]])]
           ELSE world' = world
    /\ last' = [op |-> "spawn", before |-> world]
    /\ UNCHANGED <<dialogue, info, chan, tasks, ready, incoming, borrow, panicked, assets,
                   file, phase>>

\* editor.rs 361-369: Tool::Select, a left click at the cursor
EditSelect ==
    /\ panicked = ""
    /\ \E x \in Coords, y \in Coords :
          world' = [world EXCEPT !.editor.selected =
                       Overworld_query_cursor_pos(world.overworld.world,
                                                  [x |-> x, y |-> y])]
    /\ last' = [op |-> "select", before |-> world]
    /\ UNCHANGED <<dialogue, info, chan, tasks, ready, incoming, borrow, panicked, assets,
                   file, phase>>

\* editor.rs 334-336, 408-412: the Load button; the editor keeps its selection
EditLoad ==
    /\ panicked = ""
    /\ world' = [world EXCEPT !.overworld = OverworldEditor_load(@, file).overworld]
    /\ last' = [op |-> "load", before |-> world]
    /\ UNCHANGED <<dialogue, info, chan, tasks, ready, incoming, borrow, panicked, assets,
                   file, phase>>

NextEdit == EditDelete \/ EditDuplicate \/ EditSpawn \/ EditSelect \/ EditLoad

SpecEdit == InitEdit /\ [][NextEdit]_vars

(***************************************************************************)
(* SpecDraw: Overworld::draw called in two frames on any World of          *)
(* entities with and without a Position and a SpriteComponent.             *)
(***************************************************************************)
Layers == {-1, 0}
Drawables ==
    {NoEntity,
     [NoEntity EXCEPT !.alive = TRUE, !.pos = Position(0, 0)],
     [NoEntity EXCEPT !.alive = TRUE, !.sprite = SpriteComponent(FALSE)]}
    \cup {[NoEntity EXCEPT !.alive = TRUE, !.pos = Position(0, y),
                           !.sprite = [SpriteComponent(FALSE) EXCEPT !.layer = layer]] :
            y \in Coords, layer \in Layers}

InitDraw ==
    /\ file = NoFile
    /\ Frozen
    /\ assets = LoadedAssets
    /\ world \in [Ids -> Drawables]
    /\ phase = "call"
    /\ last = [op |-> "init", frames |-> 0, order |-> <<>>, previous |-> <<>>]

\* this.overworld.draw(assets), once per frame
CallDraw ==
    /\ phase = "call"
    /\ last.frames < 2
    /\ last' = [op |-> "draw", frames |-> last.frames + 1,
                order |-> Overworld_draw(world, MaxEntities), previous |-> last.order]
    /\ UNCHANGED <<dialogue, info, world, chan, tasks, ready, incoming, borrow, panicked,
                   assets, file, phase>>

NextDraw == CallDraw

SpecDraw == InitDraw /\ [][NextDraw]_vars

(***************************************************************************)
(* SpecSetText: Dialogue::set_text called with any text on any Dialogue.   *)
(***************************************************************************)
Dialogues ==
    [shown : BOOLEAN,
     current_text : Texts,
     current_progress : 0..MaxProgress,
     waiting_for : {Nothing} \cup {Waiting(kind, 1) : kind \in {"Confirm", "Choice", "Auto"}},
     choices : {NoChoices} \cup {SomeChoices(ChoiceList(n)) : n \in 1..MaxChoices},
     current_choice : 0..(MaxChoices - 1),
     portrait : {NoPortrait, Maribelle, GhostPortrait}]

InitSetText ==
    /\ file = NoFile
    /\ assets = LoadedAssets
    /\ dialogue \in Dialogues
    /\ info = [player_class |-> "None", ghost_class |-> "None"]
    /\ world = WorldInit
    /\ chan = [t \in Slots |-> IF t = 1 /\ dialogue.waiting_for # Nothing
                               THEN NewChan ELSE NoChan]
    /\ tasks = [t \in Slots |-> NoTask]
    /\ ready = <<>>
    /\ incoming = <<>>
    /\ borrow = 0
    /\ panicked = ""
    /\ phase = "call"
    /\ last = [op |-> "init", text |-> "", before |-> dialogue]

\* this.dialogue.set_text(text.into())
CallSetText ==
    /\ phase = "call"
    /\ last.op = "init"
    /\ \E text \in Texts :
          /\ dialogue' = set_text(dialogue, text)
          /\ last' = [op |-> "set_text", text |-> text, before |-> dialogue]
    /\ UNCHANGED <<info, world, chan, tasks, ready, incoming, borrow, panicked, assets,
                   file, phase>>

NextSetText == CallSetText

SpecSetText == InitSetText /\ [][NextSetText]_vars

(***************************************************************************)
(* SpecUpdate: one Game::update, the dialogue shown or hidden, on a World  *)
(* of the player (slot 1), an obstacle or a follower (slot 2) and an       *)
(* interactable (slot 3), with any keys.                                   *)
(***************************************************************************)
\* main.rs 830-861 over a World of any entities: the Overworld is of handle player
Game_update_world(g, a, player, k) ==
    IF g.borrow # 0 THEN Panic(g, "already borrowed")
    ELSE LET this == [g EXCEPT !.borrow = 1]
             shown == this.d.shown
             ow == Overworld_update_world(this.world, a, player, k, ~shown)
             g1 == [this EXCEPT !.world = ow.world]
             g2 == IF shown THEN Dialogue_update(g1, k.up, k.down, k.space) ELSE g1
             g3 == DispatchAll(g2, ow.events)
         IN  IF ow.panicked # "" THEN Panic(g1, ow.panicked)
             ELSE [g3 EXCEPT !.borrow = 0]

\* the character sprite with an Idle of two entries and a Back of one
FrameAssets ==
    [char_sprite |-> 0,
     animated_sprites |->
        <<AnimatedSprite(2, [n \in AnimationNames |->
                                IF n = "Idle" THEN Sequence(<<0, 1>>) ELSE Sequence(<<0>>)]),
          AnimatedSprite(1, [n \in AnimationNames |-> Sequence(<<0>>)])>>]

FramePlayers ==
    {[NoEntity EXCEPT !.alive = TRUE, !.pos = Position(0, y),
                      !.sprite = SpriteComponent(FALSE),
                      !.animation = AnimationComponent(0, "Idle", 0),
                      !.collision = CollisionComponent(Rect(0, 0, 1, 1))] : y \in Coords}
FrameSeconds ==
    {NoEntity}
    \cup {[NoEntity EXCEPT !.alive = TRUE, !.pos = Position(x, y),
                           !.collision = CollisionComponent(Rect(0, 0, 1, 1))] :
            x \in Coords, y \in Coords}
    \cup {[NoEntity EXCEPT !.alive = TRUE, !.pos = Position(x, y),
                           !.follow = FollowComponent(Entity(1, 0), 0, 1)] :
            x \in {0, MaxCoord}, y \in Coords}
FrameThirds ==
    {NoEntity}
    \cup {[NoEntity EXCEPT !.alive = TRUE, !.pos = Position(0, y),
                           !.interactable = Interactable(bounds, interaction, 0)] :
            y \in Coords, interaction \in {"Lamp", "Ghost"},
            bounds \in {Rect(0, 0, 1, 1), Rect(-1, 0, 1, 1)}}
FrameDialogues ==
    {DialogueDefault,
     [DialogueDefault EXCEPT !.shown = TRUE, !.current_text = "A",
                             !.waiting_for = Waiting("Confirm", 1)]}
FrameKeys == {k \in Keys(FALSE) : ~k.down /\ ~k.left /\ ~k.right}

InitUpdate ==
    /\ file = NoFile
    /\ assets = FrameAssets
    /\ dialogue \in FrameDialogues
    /\ info = [player_class |-> "None", ghost_class |-> "None"]
    /\ \E first \in FramePlayers, second \in FrameSeconds, third \in FrameThirds :
          world = [id \in Ids |-> CASE id = 1 -> first [] id = 2 -> second
                                    [] id = 3 -> third [] OTHER -> NoEntity]
    /\ chan = [t \in Slots |-> IF t = 1 /\ dialogue.shown THEN NewChan ELSE NoChan]
    /\ tasks = [t \in Slots |-> NoTask]
    /\ ready = <<>>
    /\ incoming = <<>>
    /\ borrow = 0
    /\ panicked = ""
    /\ phase = "update"
    /\ last = [op |-> "init", keys |-> NoKeys, shown |-> dialogue.shown, events |-> <<>>,
               before |-> world, dialogue |-> dialogue]

\* game.update(&assets, &spawner), the keys of the frame being k
CallGameUpdate ==
    /\ phase = "update"
    /\ phase' = "draw"
    /\ \E k \in FrameKeys :
          /\ Commit(Game_update_world(G, assets, Entity(1, 0), k))
          /\ last' = [op |-> "update", keys |-> k, shown |-> dialogue.shown,
                      events |-> Overworld_update_world(world, assets, Entity(1, 0), k,
                                                        ~dialogue.shown).events,
                      before |-> world, dialogue |-> dialogue]

NextUpdate == CallGameUpdate

SpecUpdate == InitUpdate /\ [][NextUpdate]_vars

(***************************************************************************)
(* Properties                                                              *)
(***************************************************************************)
Queue == ready \o incoming
Live(t) == tasks[t].script # "none"
Suspended(t) == Live(t) /\ tasks[t].pc # "start"
NumLive == Cardinality({t \in Slots : Live(t)})

\* C1: a script suspended on a wait that is still pending when the dialogue is
\* force-ended finds Err(Canceled) at its next poll, which comes in the pool run of
\* the same frame: the Shift+I step turns every pending wait into a cancelled one
\* and queues its script; a cancelled wait is never anything but queued for that
\* poll; and the poll of a cancelled script removes the script and writes nothing
\* to the dialogue, to Info or to the world.
C1Queued ==
    \A t \in Slots : chan[t].st = "cancelled" =>
        /\ Suspended(t) /\ InSeq(t, ready) /\ phase = "tasks"
        /\ chan[t].sends = 0
        /\ ~(dialogue.waiting_for.kind # "Nothing" /\ dialogue.waiting_for.ch = t)
C1ForceEnd ==
    (phase = "draw" /\ last'.forced) =>
        /\ dialogue'.waiting_for = Nothing
        /\ \A t \in Slots : chan[t].st = "pending" =>
              /\ chan'[t].st = "cancelled"
              /\ tasks'[t] = tasks[t]
C1Poll ==
    (phase = "tasks" /\ chan[Head(Queue)].st = "cancelled") =>
        /\ dialogue' = [dialogue EXCEPT !.waiting_for = dialogue'.waiting_for]
        /\ dialogue'.waiting_for.kind = dialogue.waiting_for.kind
        /\ info' = info
        /\ world' = world
        /\ NumLive' = NumLive - 1
        /\ \A u \in Slots : Live(u)' =>
              \E t \in Slots \ {Head(Queue)} : tasks'[u] = tasks[t] /\ chan'[u] = chan[t]
C1Theorem == [](C1Queued) /\ [][C1ForceEnd /\ C1Poll]_vars
\* the script whose wait a Shift+I cancelled has been polled
C1Witness == last.op = "cancelled" /\ last.forced

\* C2: right after end_dialogue has returned every field of the dialogue is reset:
\* not shown, empty text, reveal progress 0, no portrait, no choice list, index 0,
\* nothing pending.  The state after the Shift+I step is the state end_dialogue
\* returned with.
C2Counterexample ==
    (last.op = "keys" /\ last.forced) =>
        /\ dialogue.shown = FALSE
        /\ dialogue.current_text = ""
        /\ dialogue.current_progress = 0
        /\ dialogue.portrait = NoPortrait
        /\ dialogue.choices = NoChoices
        /\ dialogue.current_choice = 0
        /\ dialogue.waiting_for = Nothing

\* C3: a wait has one outcome.  Its channel carries at most one send; while the
\* Sender is in waiting_for nothing was sent and the script is suspended on it, and
\* a pending wait has its Sender there; a script in the queue that has run before
\* finds a value or Err(Canceled), never both and never neither; the step that
\* sends is a Dialogue::update that leaves waiting_for Nothing; and a wait whose
\* Sender was dropped gets no value.
C3State ==
    \A t \in Slots :
        /\ chan[t].sends <= 1
        /\ chan[t].st = "value" <=> chan[t].sends = 1
        /\ (dialogue.waiting_for.kind # "Nothing" /\ dialogue.waiting_for.ch = t)
              <=> chan[t].st = "pending"
        /\ chan[t].st = "pending" => Suspended(t) /\ ~InSeq(t, Queue)
        /\ Suspended(t) => chan[t].st \in {"pending", "value", "cancelled"}
        /\ chan[t].st \in {"value", "cancelled"} => Suspended(t) /\ InSeq(t, ready)
C3Step ==
    \A t \in Slots :
        /\ (chan[t].st # "value" /\ chan'[t].st = "value") =>
              /\ phase = "update"
              /\ chan[t].st = "pending"
              /\ dialogue'.waiting_for = Nothing
        /\ (chan[t].st = "cancelled" /\ phase # "tasks") => chan'[t] = chan[t]
        /\ (chan[t].st = "cancelled" /\ phase = "tasks" /\ Head(Queue) # t) =>
              \E u \in Slots : chan'[u].st = "cancelled" /\ tasks'[u] = tasks[t]
C3Theorem == [](C3State) /\ [][C3Step]_vars
\* the update of this frame has delivered a value and left nothing pending
C3Witness ==
    /\ \E t \in Slots : chan[t].st = "value" /\ chan[t].sends = 1 /\ Suspended(t)
    /\ dialogue.waiting_for = Nothing
    /\ last.op = "update"

\* a step that is one call of Dialogue::update, and what it did to the pending wait
IsUpdate == last'.ticks = last.ticks + 1
Fired(kind) ==
    /\ dialogue.waiting_for.kind = kind
    /\ dialogue'.waiting_for = Nothing
    /\ chan'[dialogue.waiting_for.ch].st = "value"
StillPending == dialogue'.waiting_for = dialogue.waiting_for /\ chan' = chan

\* C4: k updates after a text of length n was set, min(k, n) characters count as
\* revealed; and an update with an Auto wait pending fires it iff the updates since
\* the text was set have reached n, so that (an Auto wait being pending only short
\* of that) it fires at the n-th update, at the first for n = 0, and at no earlier
\* one.
C4Revealed ==
    /\ dialogue.current_progress = last.ticks
    /\ num_chars(dialogue) = Min(last.ticks, Len(dialogue.current_text))
    /\ dialogue.waiting_for.kind = "Auto" =>
          last.ticks = 0 \/ last.ticks < Len(dialogue.current_text)
C4Auto ==
    (IsUpdate /\ dialogue.waiting_for.kind = "Auto") =>
        IF last'.ticks >= Len(dialogue.current_text) THEN Fired("Auto") ELSE StillPending
C4Theorem == [](C4Revealed) /\ [][C4Auto]_vars
\* the longest text, shown with an Auto wait, has fired at its last character
C4Witness ==
    /\ last.op = "update" /\ ~last.keys.space
    /\ Len(dialogue.current_text) = MaxText /\ last.ticks = MaxText
    /\ dialogue.waiting_for = Nothing
    /\ \E c \in Slots : chan[c].st = "value"

\* C5: in an update an Auto wait fires iff the text is fully revealed by then,
\* whatever the keys; a Confirm or Choice wait fires iff Space is pressed in that
\* update, whatever the reveal progress, and is otherwise left pending as it was;
\* with nothing pending no value is sent.
C5Step ==
    IsUpdate =>
        LET revealed == dialogue'.current_progress >= Len(dialogue.current_text)
            space == last'.keys.space
        IN  CASE dialogue.waiting_for.kind = "Auto" ->
                   IF revealed THEN Fired("Auto") ELSE StillPending
              [] dialogue.waiting_for.kind \in {"Confirm", "Choice"} ->
                   IF space THEN Fired(dialogue.waiting_for.kind) ELSE StillPending
              [] OTHER -> StillPending
C5Theorem == [][C5Step]_vars
\* a Confirm wait is pending still, updates after the text was fully revealed
C5Witness ==
    /\ last.op = "update"
    /\ dialogue.waiting_for.kind = "Confirm"
    /\ dialogue.current_progress > Len(dialogue.current_text)
    /\ Len(dialogue.current_text) > 0

\* C6: in a Game::update, a Choice wait that fires delivers the highlighted index
\* as the up/down input of that update left it and the choice list is cleared; a
\* Confirm wait that fires leaves the choice list and the highlighted index as they
\* were.
C6Choice ==
    (phase = "update" /\ Fired("Choice")) =>
        /\ chan'[dialogue.waiting_for.ch].val = dialogue'.current_choice
        /\ dialogue'.choices = NoChoices
C6Confirm ==
    (phase = "update" /\ Fired("Confirm")) =>
        /\ dialogue'.choices = dialogue.choices
        /\ dialogue'.current_choice = dialogue.current_choice
C6Counterexample == [][C6Choice /\ C6Confirm]_vars

\* C7: with a choice list of n entries present, an update with Up alone moves the
\* highlight from 0 to n-1 and from i to i-1 otherwise, one with Down alone from
\* n-1 to 0 and from i to i+1 otherwise, one with neither leaves it; and the
\* highlight of a present list is always one of 0..n-1.
C7Range ==
    dialogue.choices.some =>
        /\ Len(dialogue.choices.list) >= 1
        /\ dialogue.current_choice \in 0..(Len(dialogue.choices.list) - 1)
C7Moves ==
    (IsUpdate /\ dialogue.choices.some) =>
        LET n == Len(dialogue.choices.list)
            i == dialogue.current_choice
            j == dialogue'.current_choice
            k == last'.keys
        IN  /\ (k.up /\ ~k.down) => j = IF i = 0 THEN n - 1 ELSE i - 1
            /\ (k.down /\ ~k.up) => j = IF i = n - 1 THEN 0 ELSE i + 1
            /\ (~k.up /\ ~k.down) => j = i
C7Theorem == [](C7Range) /\ [][C7Moves]_vars
\* Up has taken the highlight of the longest list from its first entry to its last
C7Witness ==
    /\ last.op = "update" /\ last.keys.up /\ ~last.keys.down
    /\ dialogue.choices.some /\ Len(dialogue.choices.list) = MaxChoices
    /\ dialogue.current_choice = MaxChoices - 1

\* C8: a Game::update of a frame that starts with the dialogue shown spawns no
\* script, whatever the keys, and no key makes Overworld::update emit an event in
\* it; a script is spawned only by the Game::update of a frame that starts with the
\* dialogue not shown.
C8NoEvent ==
    (phase = "update" /\ dialogue.shown) =>
        \A k \in Keys(TRUE) : Overworld_update(world, k, ~dialogue.shown).events = <<>>
C8NoSpawn ==
    /\ (phase = "update" /\ dialogue.shown) => incoming' = incoming /\ tasks' = tasks
    /\ (\E t \in Slots : ~Live(t) /\ Live(t)' /\ tasks'[t].pc = "start") =>
          phase = "update" /\ ~dialogue.shown
C8Theorem == [](C8NoEvent) /\ [][C8NoSpawn]_vars
\* Space was pressed (the lamp's line was confirmed) in a frame that started with
\* the dialogue shown and the player within reach of an interactable: no spawn
C8Witness ==
    /\ phase = "draw" /\ dialogue.shown /\ incoming = <<>>
    /\ \E t \in Slots : tasks[t].script = "lamp_dialogue_tree" /\ chan[t].st = "value"
    /\ interact(world, "player") # <<>>

\* C9: a script takes steps only in the pool run that ends a frame: outside it the
\* tasks change by a spawn alone, which leaves the new script at its start, and no
\* wait is created; a value is delivered only by the Game::update of a frame, which
\* comes before that frame's pool run, so to a wait of an earlier frame; the pool
\* run is entered with something to poll and left as soon as nothing is, each live
\* script then being suspended on a pending wait while main goes on.
C9State ==
    /\ phase = "tasks" => Queue # <<>>
    /\ phase \in {"update", "draw"} => \A t \in Slots :
          Live(t) => \/ tasks[t].pc = "start" /\ InSeq(t, incoming)
                     \/ Suspended(t) /\ chan[t].st \in {"pending", "value"}
    /\ phase = "update" => Queue = <<>> /\ \A t \in Slots : Live(t) => chan[t].st = "pending"
C9Step ==
    /\ phase # "tasks" => \A t \in Slots :
          /\ Live(t) => tasks'[t] = tasks[t]
          /\ ~Live(t) => tasks'[t] = tasks[t] \/ tasks'[t].pc = "start"
          /\ chan'[t].st = "pending" => chan[t].st = "pending"
    /\ \A t \in Slots : (chan[t].st # "value" /\ chan'[t].st = "value") =>
          phase = "update" /\ dialogue.shown
    /\ phase = "update" => phase' = "draw"
    /\ phase = "draw" => phase' \in {"tasks", "update"}
C9Theorem == [](C9State) /\ [][C9Step]_vars
\* the Game::update of a frame has run and left the script of an earlier frame's
\* pool run suspended; main goes on to draw
C9Witness ==
    /\ phase = "draw" /\ last.op = "update" /\ dialogue.shown
    /\ \E t \in Slots : Suspended(t) /\ chan[t].st = "pending"

\* C10: no borrow of the shared state fails: no step of main or of a script finds
\* it borrowed, and none leaves it borrowed for the next.
C10Theorem == panicked # "already borrowed" /\ borrow = 0
\* a script has written Info and inserted into the World, and a later step of it ran
\* in a frame whose dialogue was force-ended, with no panic
C10Witness ==
    /\ panicked = "" /\ last.forced /\ last.op = "resumed"
    /\ info.ghost_class # "None"
    /\ world.follow["ghost"].some

\* C11: interact pushes at most one event; when the bounds of some interactable,
\* offset by its Position, contain the actor's Position, it pushes exactly one, for
\* an interactable of the highest priority among those that do, with that
\* interactable's kind; when none does, or the actor has no Position, it pushes none.
Containing(w, pos) ==
    {id \in Ids : /\ w[id].alive /\ w[id].pos.some /\ w[id].interactable.some
                  /\ Rect_contains(Rect_offset(w[id].interactable.bounds, w[id].pos), pos)}
C11Theorem ==
    last.op = "interact" =>
        LET actor == last.entity
            found == IF Contains(world, actor) /\ world[actor.id].pos.some
                     THEN Containing(world, world[actor.id].pos) ELSE {}
        IN  /\ Len(last.events) <= 1
            /\ found = {} => last.events = <<>>
            /\ found # {} =>
                  /\ Len(last.events) = 1
                  /\ last.events[1].entity.id \in found
                  /\ last.events[1].entity = HandleOf(world, last.events[1].entity.id)
                  /\ \A id \in found : world[id].interactable.priority
                        <= world[last.events[1].entity.id].interactable.priority
                  /\ last.events[1].interaction
                        = world[last.events[1].entity.id].interactable.interaction
\* two interactables of different priority and kind contain the actor: the event
\* names the one of higher priority
C11Witness ==
    /\ last.op = "interact" /\ Len(last.events) = 1
    /\ \E a, b \in Containing(world, world[1].pos) :
          /\ world[a].interactable.priority < world[b].interactable.priority
          /\ world[a].interactable.interaction # world[b].interactable.interaction
          /\ a > b
          /\ last.events[1].entity.id = b

\* the other boxes of World w that the box overlaps, the subject being in slot s
HasBox(w, id) == w[id].alive /\ w[id].pos.some /\ w[id].collision.some
BoxOf(w, id) == Rect_offset(w[id].collision.bounds, w[id].pos)
Overlapping(w, s, box) ==
    {id \in Ids \ {s} : HasBox(w, id) /\ Rect_overlaps(box, BoxOf(w, id))}
Resolvable(w, h) == Contains(w, h) /\ HasBox(w, h.id)
Moved(w, v, id) == Vec2(v[id].pos.x - w[id].pos.x, v[id].pos.y - w[id].pos.y)

Horizontal(a, b) == {Rect_left(b) - Rect_right(a), Rect_right(b) - Rect_left(a)}
Vertical(a, b) == {Rect_top(b) - Rect_bottom(a), Rect_bottom(b) - Rect_top(a)}
Smallest(S) == CHOOSE m \in {Abs(c) : c \in S} : \A c \in S : m <= Abs(c)
\* v is the push of least magnitude of a out of b, horizontal on a tie
LeastPush(v, a, b) ==
    IF Smallest(Horizontal(a, b)) <= Smallest(Vertical(a, b))
    THEN v.y = 0 /\ v.x \in Horizontal(a, b) /\ Abs(v.x) = Smallest(Horizontal(a, b))
    ELSE v.x = 0 /\ v.y \in Vertical(a, b) /\ Abs(v.y) = Smallest(Vertical(a, b))

Pushes(a, b) ==
    IF Rect_overlaps(a, b)
    THEN {v \in {Vec2(c, 0) : c \in Horizontal(a, b)} \cup {Vec2(0, c) : c \in Vertical(a, b)} :
            LeastPush(v, a, b)}
    ELSE {Vec2(0, 0)}
RECURSIVE OneShotSums(_, _, _, _)
\* the sums of one push per other box from slot i on, every push out of the same box
OneShotSums(w, s, box, i) ==
    IF i > MaxEntities THEN {Vec2(0, 0)}
    ELSE IF i = s \/ ~HasBox(w, i) THEN OneShotSums(w, s, box, i + 1)
         ELSE {Vec2(v.x + t.x, v.y + t.y) :
                  v \in Pushes(box, BoxOf(w, i)), t \in OneShotSums(w, s, box, i + 1)}
RECURSIVE SequentialSums(_, _, _, _)
\* the sums of one push per other box from slot i on, every push out of the box
\* as the pushes before it left it
SequentialSums(w, s, box, i) ==
    IF i > MaxEntities THEN {Vec2(0, 0)}
    ELSE IF i = s \/ ~HasBox(w, i) THEN SequentialSums(w, s, box, i + 1)
         ELSE UNION {{Vec2(v.x + t.x, v.y + t.y) :
                         t \in SequentialSums(w, s, Rect_offset(box, v), i + 1)} :
                     v \in Pushes(box, BoxOf(w, i))}

C15Theorem ==
    last.op = "resolve_penetrations"
        => /\ \A id \in Ids \ {last.entity.id} : world[id] = last.before[id]
           /\ world[last.entity.id]
                 = [last.before[last.entity.id] EXCEPT !.pos = world[last.entity.id].pos]
           /\ (\/ ~last.before[last.entity.id].alive
               \/ last.before[last.entity.id].generation # last.entity.generation
               \/ ~last.before[last.entity.id].pos.some
               \/ ~last.before[last.entity.id].collision.some) => world = last.before
\* the subject's slot was reused by an entity whose box lies inside another
\* box, and the World stayed
C15Witness ==
    /\ last.op = "resolve_penetrations"
    /\ last.before[1].generation # last.entity.generation
    /\ HasBox(last.before, 1)
    /\ Overlapping(last.before, 1, BoxOf(last.before, 1)) # {}
    /\ world = last.before

\* entity id of World w follows a live entity that has a Position
Follows(w, id) ==
    /\ w[id].alive /\ w[id].pos.some /\ w[id].follow.some
    /\ w[id].follow.target.id \in Ids
    /\ w[w[id].follow.target.id].alive
    /\ w[w[id].follow.target.id].generation = w[id].follow.target.generation
    /\ w[w[id].follow.target.id].pos.some
XDiff(w, id) == w[w[id].follow.target.id].pos.x - w[id].pos.x
YDiff(w, id) == w[w[id].follow.target.id].pos.y - w[id].pos.y

C17Theorem ==
    last.op = "follow" =>
        /\ panicked = ""
        /\ \A id \in Ids :
              (/\ last.before[id].alive /\ last.before[id].pos.some
               /\ last.before[id].follow.some
               /\ ~Follows(last.before, id))
                 => world[id] = last.before[id]
\* the target's slot was reused by an entity with a Position farther away than
\* max_distance, and the follower stayed
C17Witness ==
    /\ last.op = "follow"
    /\ last.before[1].pos.some
    /\ last.before[2].alive
    /\ last.before[2].generation # last.before[1].follow.target.generation
    /\ last.before[2].pos.some
    /\ Abs(last.before[2].pos.x - last.before[1].pos.x)
          + Abs(last.before[2].pos.y - last.before[1].pos.y) > last.before[1].follow.max_distance
    /\ world[1] = last.before[1]
    /\ panicked = ""

\* the length of the animation an AnimationComponent names, in the sprite it names
OwnLength(a, c) == get_anim_length(Assets_get(a, c.id), c.animation)
Ticking(id) ==
    /\ world[id].alive /\ world[id].animation.some
    /\ world[id].animation.animation = last.start[id].animation.animation

\* C18: an AnimationComponent that began at frame 0 and kept its animation
\* name, the animation being of length L, is after t ticks at frame t mod L
\* when L > 0 and at frame 0 when L = 0, whether or not input was allowed
\* (a dialogue shown) in those ticks.
C18Counterexample ==
    (last.op = "update" /\ panicked = "") =>
        \A id \in Ids : Ticking(id) =>
            world[id].animation.frame
               = IF OwnLength(assets, world[id].animation) > 0
                 THEN last.ticks % OwnLength(assets, world[id].animation)
                 ELSE 0

\* C19: after every tick the frame of every AnimationComponent is below the
\* length of its animation in the sprite it names, or is 0 when that length
\* is 0.
C19Counterexample ==
    (last.op = "update" /\ panicked = "") =>
        \A id \in Ids : (world[id].alive /\ world[id].animation.some) =>
            \/ world[id].animation.frame < OwnLength(assets, world[id].animation)
            \/ (OwnLength(assets, world[id].animation) = 0 /\ world[id].animation.frame = 0)

\* the name is in the table of the sprite looked up
Known(anim) ==
    /\ anim \in DOMAIN Assets_get(assets, assets.char_sprite).animations
    /\ Assets_get(assets, assets.char_sprite).animations[anim].some

\* C20: get_anim_length and get_anim_frame do not fail; a name that is not in
\* the table has length 0, and such a name, or a frame at or past the end of
\* the expanded sequence, yields frame 0 of the frame table.
C20Counterexample ==
    last.op = "get_anim" =>
        /\ panicked = ""
        /\ ~Known(last.anim) => last.length = 0
        /\ (\/ ~Known(last.anim)
            \/ last.frame >= Len(Assets_get(assets, assets.char_sprite).animations[last.anim].data))
              => (last.frame_info.ok /\ last.frame_info.frame = 0)

RECURSIVE RoundedEntries(_, _, _)
\* frames f..to, each repeated round(duration * Fps / MsPerSecond) times
RoundedEntries(frames, f, to) ==
    IF f > to THEN <<>>
    ELSE Repeat(f, (2 * frames[f + 1] * Fps + MsPerSecond) \div (2 * MsPerSecond))
            \o RoundedEntries(frames, f + 1, to)

\* C21: a named animation expanded at 60 per 1000 time units holds, for each
\* source frame of duration N in source order, round(N * 60 / 1000) consecutive
\* entries of the frame's index, so that its length is the sum of these counts.
C21Counterexample ==
    (last.op = "convert" /\ last.sheet.tags # <<>>) =>
        assets.animated_sprites[Len(assets.animated_sprites)].animations["Idle"]
           = Sequence(RoundedEntries(last.sheet.frames, last.sheet.tags[1].from,
                                     last.sheet.tags[1].to))

\* C22: loading what Save has just written yields the same entity handles, the
\* same player handle and, for every entity, the same components with the
\* same values: Position, Sprite, Collision, Animation, Interactable, Follow.
C22Counterexample ==
    (last.op = "load" /\ last.saved) => (last.ok /\ world = last.before)

\* the document does not deserialize: no file, no JSON, no player field, or a
\* row with a key that names no component
Malformed(doc) ==
    \/ doc.kind # "json"
    \/ ~doc.player.some
    \/ \E i \in 1..Len(doc.world) : doc.world[i].unknown

\* C23: load of a malformed snapshot returns an error to its caller, is called
\* once and not again, and leaves the Overworld, its entities, their components
\* and the player handle, as it was.
C23Theorem ==
    (last.op = "load" /\ Malformed(file)) =>
        /\ ~last.ok
        /\ last.loads = 1
        /\ world = last.before
        /\ panicked = ""
\* a document of another number of entities, its first row with an unknown key,
\* was loaded: an error, and the World stayed
C23Witness ==
    /\ last.op = "load"
    /\ file.kind = "json" /\ file.player.some
    /\ file.world[1].unknown
    /\ Len(file.world) # Len(Overworld_serialize(world).world)
    /\ ~last.ok
    /\ world = last.before

Drawn(id) == world[id].alive /\ world[id].pos.some /\ world[id].sprite.some

\* C24: the drawables are drawn once each, in an order non-decreasing in
\* (layer, y): a smaller layer first, and a smaller y first within a layer;
\* the order, that of drawables equal in both included, is the same in every
\* frame in which the World is the same.
C24Theorem ==
    last.op = "draw" =>
        /\ {last.order[i] : i \in 1..Len(last.order)} = {id \in Ids : Drawn(id)}
        /\ \A i, j \in 1..Len(last.order) :
              i < j =>
                 /\ last.order[i] # last.order[j]
                 /\ world[last.order[i]].sprite.layer <= world[last.order[j]].sprite.layer
                 /\ world[last.order[i]].sprite.layer = world[last.order[j]].sprite.layer
                       => world[last.order[i]].pos.y <= world[last.order[j]].pos.y
        /\ last.frames = 2 => last.order = last.previous
\* the second frame drew a drawable of the lower layer and larger y first, and
\* then two drawables equal in layer and y
C24Witness ==
    /\ last.op = "draw"
    /\ last.frames = 2
    /\ Len(last.order) = 3
    /\ last.order[1] > last.order[2]
    /\ world[last.order[1]].sprite.layer < world[last.order[2]].sprite.layer
    /\ world[last.order[1]].pos.y > world[last.order[2]].pos.y
    /\ world[last.order[2]].sprite.layer = world[last.order[3]].sprite.layer
    /\ world[last.order[2]].pos.y = world[last.order[3]].pos.y

\* the script that an Interaction event is to start, Info being i
ScriptFor(event, i) ==
    IF event.interaction = "Lamp" THEN "lamp_dialogue_tree"
    ELSE IF i.ghost_class = "None" THEN "ghost_meeting" ELSE "ghost_after"

\* C25: Game::update spawns exactly one script per Interaction event, queued and
\* not yet polled: for a Lamp event the lamp script whatever Info holds, for a
\* Ghost event the first-meeting script iff Info.ghost_class is absent when the
\* event is handled and the already-met script otherwise.  This holds of what
\* Game::update would do for every key set in every state the loop reaches, and
\* of every Game::update step taken.
C25Handled ==
    (phase = "update" /\ panicked = "") =>
        \A k \in Keys(dialogue.shown) :
            LET events == Overworld_update(world, k, ~dialogue.shown).events
                g == Game_update(G, k)
                new == {t \in Slots : ~Live(t) /\ g.tasks[t].script # "none"}
            IN  Len(events) <= Cardinality(FreeSlots(G)) =>
                   /\ Cardinality(new) = Len(events)
                   /\ Len(g.incoming) = Len(incoming) + Len(events)
                   /\ g.info = info
                   /\ \A t \in Slots \ new : g.tasks[t] = tasks[t]
                   /\ \A i \in 1..Len(events) :
                         LET t == g.incoming[Len(incoming) + i]
                         IN  /\ t \in new
                             /\ g.tasks[t].pc = "start"
                             /\ g.tasks[t].script = ScriptFor(events[i], info)
C25Step ==
    phase = "update" =>
        \E k \in Keys(dialogue.shown) :
            LET ow == Overworld_update(world, k, ~dialogue.shown)
                new == {t \in Slots : ~Live(t) /\ tasks'[t].script # "none"}
            IN  /\ world' = ow.world
                /\ Cardinality(new) = Len(ow.events)
                /\ Len(incoming') = Len(incoming) + Len(ow.events)
                /\ \A i \in 1..Len(ow.events) :
                      LET t == incoming'[Len(incoming) + i]
                      IN  /\ t \in new
                          /\ tasks'[t].pc = "start"
                          /\ tasks'[t].script = ScriptFor(ow.events[i], info)
C25Theorem == [](C25Handled) /\ [][C25Step]_vars
\* a Ghost event was handled with a companion persona recorded: the already-met
\* script is queued, unpolled, and is the only script
C25Witness ==
    /\ phase = "draw" /\ last.op = "update"
    /\ info.ghost_class # "None"
    /\ Len(incoming) = 1
    /\ tasks[incoming[1]].script = "ghost_after" /\ tasks[incoming[1]].pc = "start"
    /\ NumLive = 1

\* C26: set_text(text) sets the dialogue to shown, the reveal progress to 0 and
\* the text buffer to text, and nothing else: the portrait, the choice list, the
\* highlighted index and the pending continuation (with its channel) are as
\* before the call.
C26Theorem ==
    last.op = "set_text" =>
        /\ dialogue.shown
        /\ dialogue.current_progress = 0
        /\ dialogue.current_text = last.text
        /\ dialogue.portrait = last.before.portrait
        /\ dialogue.choices = last.before.choices
        /\ dialogue.current_choice = last.before.current_choice
        /\ dialogue.waiting_for = last.before.waiting_for
        /\ dialogue.waiting_for # Nothing => chan[dialogue.waiting_for.ch] = NewChan
\* a text was set over a hidden dialogue with another text part-revealed, a choice
\* list with the last entry highlighted, a portrait and a pending Choice
C26Witness ==
    /\ last.op = "set_text"
    /\ ~last.before.shown
    /\ last.before.current_progress > 0
    /\ last.before.current_text # last.text
    /\ last.before.choices.some /\ last.before.current_choice = MaxChoices - 1
    /\ last.before.portrait.some
    /\ last.before.waiting_for.kind = "Choice"

\* the first line of a script, as the model shows it (main.rs 945, 996, 1062)
FirstLine(script) ==
    Line(CASE script = "lamp_dialogue_tree" -> "IT'S A LAMP."
           [] script = "ghost_meeting" -> "HI THERE!\nWHO ARE YOU?"
           [] OTHER -> "ANYTHING YOU WANT TO TALK ABOUT,\n")

\* C27: the poll of a script that finds Err(Canceled) discards the script and
\* nothing else: no panic, the dialogue as it was (the pool's slot of the script
\* that waits aside), and main goes on; the frame after a force-end whose pool run ended with that poll starts
\* with the dialogue hidden, so its Game::update allows input, and a Space
\* press on an interactable in it spawns a script; and the first poll of a
\* spawned script shows the script's first line, unrevealed, with a wait on it.
C27Allowed ==
    (phase = "update" /\ last.forced /\ last.op = "cancelled") =>
        /\ panicked = ""
        /\ ~dialogue.shown
        /\ dialogue.waiting_for = Nothing
        /\ \A k \in Keys(FALSE) :
              LET ow == Overworld_update(world, k, TRUE)
                  g == Game_update(G, k)
              IN  /\ MovePlayer(world, k).pos["player"] = ow.world.pos["player"]
                  /\ (k.space /\ interact(ow.world, "player") # <<>>
                         /\ FreeSlots(G) # {}) =>
                        /\ g.panicked = ""
                        /\ Len(g.incoming) = 1
                        /\ g.tasks[g.incoming[1]].pc = "start"
C27Discarded ==
    (phase = "tasks" /\ last'.op = "cancelled") =>
        /\ panicked' = ""
        /\ NumLive' = NumLive - 1
        /\ [dialogue' EXCEPT !.waiting_for.ch = 0] = [dialogue EXCEPT !.waiting_for.ch = 0]
        /\ info' = info /\ world' = world
        /\ phase' \in {"tasks", "update"}
C27FirstLine ==
    (phase = "tasks" /\ last'.op = "started") =>
        /\ panicked' = ""
        /\ dialogue'.shown
        /\ dialogue'.current_text = FirstLine(tasks[Head(Queue)].script)
        /\ dialogue'.current_progress = 0
        /\ dialogue'.waiting_for.kind \in {"Confirm", "Auto"}
        /\ dialogue'.waiting_for.ch = Head(Queue)
        /\ chan'[Head(Queue)] = NewChan
C27Theorem == [](C27Allowed) /\ [][C27Discarded /\ C27FirstLine]_vars
\* the first-meeting script recorded the player's persona and was then cancelled
\* (it is gone, and no companion persona is recorded); in a later frame Space on
\* the lamp spawned the lamp script, whose first poll has shown its first line
C27Witness ==
    /\ last.op = "started" /\ ~last.forced /\ panicked = ""
    /\ info.player_class # "None" /\ info.ghost_class = "None"
    /\ NumLive = 1
    /\ \E t \in Slots : tasks[t].script = "lamp_dialogue_tree" /\ tasks[t].pc = "lamp_1"
    /\ dialogue.shown /\ dialogue.current_text = FirstLine("lamp_dialogue_tree")

\* the player of SpecUpdate as the movement phase leaves it
MovedY == IF last.keys.up THEN last.before[1].pos.y - 1 ELSE last.before[1].pos.y
\* the World of SpecUpdate as the movement and follow phases leave it
MovedAndFollowed ==
    [id \in Ids |->
        IF id = 1
        THEN [last.before[1] EXCEPT !.pos.y = MovedY,
                                    !.animation.animation =
                                        IF last.keys.up THEN "Back" ELSE @]
        ELSE IF last.before[id].follow.some
             THEN LET adjustment ==
                          Adjustment(last.before[id].pos, last.before[id].follow,
                                     Position(last.before[1].pos.x, MovedY))
                  IN  [last.before[id] EXCEPT !.pos.x = @ + adjustment.x,
                                              !.pos.y = @ + adjustment.y]
             ELSE last.before[id]]
\* some interactable of the World holds the point in its bounds
InReach(w, point) ==
    \E id \in Ids :
        /\ w[id].alive /\ w[id].pos.some /\ w[id].interactable.some
        /\ Rect_contains(Rect_offset(w[id].interactable.bounds, w[id].pos), point)

\* C28: in an update with input allowed the phases run in the order movement,
\* follow, collision resolution, interaction dispatch, animation tick: a follower
\* is adjusted towards the player's position after the movement (and before the
\* correction), the player ends where the collision resolution puts it from its
\* moved position, an event is pushed iff Space is pressed and an interactable
\* holds the player's position after movement and correction, whatever held
\* the position at the start of the frame, and the frame counter is advanced
\* against the animation that the movement named.
C28Theorem ==
    (last.op = "update" /\ ~last.shown) =>
        /\ panicked = ""
        /\ \A id \in Ids \ {1} : world[id].pos = MovedAndFollowed[id].pos
        /\ world[1].pos = Overworld_resolve_penetrations(MovedAndFollowed, Entity(1, 0))[1].pos
        /\ (last.events # <<>>) <=> (last.keys.space /\ InReach(world, world[1].pos))
        /\ Len(last.events) = Len(incoming)
        /\ world[1].animation.animation = MovedAndFollowed[1].animation.animation
        /\ world[1].animation.frame =
              IF 1 >= get_anim_length(Assets_get(assets, 0), world[1].animation.animation)
              THEN 0 ELSE 1
\* Up and Space: the player moved into an obstacle and was pushed back out of it,
\* to a position that an interactable holds while it held neither the position at
\* the start of the frame nor the one after the movement: the event was pushed
C28Witness ==
    /\ last.op = "update" /\ ~last.shown
    /\ last.keys.up /\ last.keys.space
    /\ world[1].pos # last.before[1].pos
    /\ world[1].pos # MovedAndFollowed[1].pos
    /\ ~InReach(last.before, last.before[1].pos)
    /\ ~InReach(last.before, MovedAndFollowed[1].pos)
    /\ last.events # <<>> /\ Len(incoming) = 1

\* C29: a Game::update runs one of the two input consumers, by the shown flag
\* as it is when the update starts.  Shown: Dialogue::update runs (one more
\* character, Space resolves the pending Confirm) and the keys move nothing: no
\* follower moves, the player keeps its animation and is moved by the collision
\* resolution alone, no event is pushed and no script spawned.  Hidden: the
\* Dialogue and the channels are untouched, and movement, follow and the
\* interaction dispatch run.  Either way the player ends where the collision
\* resolution puts it and the animation tick advances its frame and sets the
\* frame its sprite shows.
C29Theorem ==
    last.op = "update" =>
        /\ panicked = ""
        /\ last.shown =>
              /\ dialogue.current_progress = last.dialogue.current_progress + 1
              /\ last.keys.space <=> (dialogue.waiting_for = Nothing /\ chan[1].st = "value")
              /\ ~last.keys.space => (dialogue.waiting_for = last.dialogue.waiting_for
                                      /\ chan[1] = NewChan)
              /\ \A id \in Ids \ {1} : world[id] = last.before[id]
              /\ world[1].animation.animation = last.before[1].animation.animation
              /\ world[1].sprite.flip_h = last.before[1].sprite.flip_h
              /\ world[1].pos =
                    Overworld_resolve_penetrations(last.before, Entity(1, 0))[1].pos
              /\ last.events = <<>> /\ incoming = <<>>
              /\ tasks = [t \in Slots |-> NoTask]
        /\ ~last.shown =>
              /\ dialogue = last.dialogue
              /\ chan = [t \in Slots |-> NoChan]
              /\ \A id \in Ids \ {1} : world[id].pos = MovedAndFollowed[id].pos
              /\ world[1].animation.animation = MovedAndFollowed[1].animation.animation
              /\ world[1].pos =
                    Overworld_resolve_penetrations(MovedAndFollowed, Entity(1, 0))[1].pos
              /\ Len(incoming) = Len(last.events)
              /\ (last.events # <<>>) <=> (last.keys.space /\ InReach(world, world[1].pos))
        /\ world[1].animation.frame =
              IF last.before[1].animation.frame + 1
                    >= get_anim_length(Assets_get(assets, 0), world[1].animation.animation)
              THEN 0 ELSE last.before[1].animation.frame + 1
        /\ world[1].sprite.source.some
\* the dialogue was shown and Up and Space were pressed beside a follower away
\* from the player, the player within reach of an interactable: the Confirm was
\* resolved and the frame ticked, and nothing moved and no script was spawned
C29Witness ==
    /\ last.op = "update" /\ last.shown
    /\ last.keys.up /\ last.keys.space
    /\ world[2].follow.some /\ world[2].pos # world[1].pos
    /\ InReach(world, world[1].pos)
    /\ chan[1].st = "value"
    /\ world[1].animation.frame = 1
    /\ incoming = <<>>

\* the waits resolved and not yet received
Delivered == {t \in Slots : chan[t].st = "value"}

\* C30: the Space press of a frame has at most one effect.  A Game::update
\* does not both resolve a wait and spawn a script: one that resolves a wait
\* started with the dialogue shown and queues nothing, one that spawns a script
\* started with it hidden and leaves the Dialogue and every channel alone, the
\* script being queued at its start with no wait of its own yet.  That wait is
\* installed by the pool run, and no step but the Game::update of a frame, which
\* reads that frame's presses, resolves a wait.
C30Step ==
    /\ phase = "update" =>
          LET fired == \E t \in Slots : chan[t].st # "value" /\ chan'[t].st = "value"
              spawned == \E t \in Slots : ~Live(t) /\ tasks'[t].script # "none"
          IN  /\ ~(fired /\ spawned)
              /\ fired => (dialogue.shown /\ incoming' = incoming /\ tasks' = tasks)
              /\ spawned => (~dialogue.shown /\ dialogue' = dialogue /\ chan' = chan)
              /\ \A t \in Slots : (~Live(t) /\ tasks'[t].script # "none") =>
                    (tasks'[t].pc = "start" /\ chan'[t].st = "none")
    /\ phase # "update" => Cardinality(Delivered') <= Cardinality(Delivered)
    /\ (phase = "tasks" /\ last'.op = "started") =>
          (dialogue'.waiting_for.ch = Head(Queue) /\ chan'[Head(Queue)].st = "pending")
C30Theorem == [][C30Step]_vars
\* Space resolved the Choice of the first meeting, the highlighted entry being
\* sent, with the player within reach of an interactable: no script was spawned
C30Witness ==
    /\ phase = "draw" /\ last.op = "update"
    /\ \E t \in Slots :
          /\ tasks[t].script = "ghost_meeting" /\ tasks[t].pc = "cp_choice"
          /\ chan[t].st = "value"
    /\ dialogue.waiting_for = Nothing /\ ~dialogue.choices.some
    /\ interact(world, "player") # <<>>
    /\ incoming = <<>> /\ NumLive = 1

\* C31: at every frame boundary (the pool has stalled and main is about to call
\* Game::update) a dialogue that is not shown has no pending continuation and
\* no choice list, and no script is suspended.
C31Counterexample ==
    (phase = "update" /\ panicked = "" /\ ~dialogue.shown) =>
        /\ dialogue.waiting_for = Nothing
        /\ ~dialogue.choices.some
        /\ \A t \in Slots : ~Suspended(t)

\* C32: at every frame boundary at most one script is alive and a pending
\* continuation is the one that script awaits; and the first poll of a script
\* that installs its wait over the pending wait of an older script cancels that
\* wait and queues the older script, which the same pool run polls and discards
\* before main goes on.
C32Boundary ==
    (phase = "update" /\ panicked = "") =>
        /\ NumLive <= 1
        /\ \A t \in Slots : Live(t) => (Suspended(t) /\ chan[t].st = "pending"
                                         /\ dialogue.waiting_for.ch = t)
        /\ dialogue.waiting_for # Nothing => Live(dialogue.waiting_for.ch)
C32Replaced ==
    (phase = "tasks" /\ last'.op = "started" /\ dialogue.waiting_for # Nothing
        /\ panicked' = "") =>
        /\ chan'[dialogue.waiting_for.ch].st = "cancelled"
        /\ InSeq(dialogue.waiting_for.ch, ready')
        /\ phase' = "tasks"
        /\ dialogue'.waiting_for.ch = Head(Queue)
C32Theorem == [](C32Boundary) /\ [][C32Replaced]_vars
\* the lamp script was started while the first-meeting script was suspended on a
\* Choice shown with the dialogue hidden: that wait is cancelled and its script
\* is queued for the poll that discards it
C32Witness ==
    /\ phase = "tasks" /\ last.op = "started"
    /\ NumLive = 2
    /\ \E t \in Slots :
          /\ tasks[t].script = "ghost_meeting" /\ chan[t].st = "cancelled"
          /\ InSeq(t, ready)
    /\ \E t \in Slots :
          /\ tasks[t].script = "lamp_dialogue_tree" /\ dialogue.waiting_for.ch = t
          /\ chan[t].st = "pending"

\* C33: in every state a recorded companion persona comes with a recorded
\* player persona, and no script panics on reading the player persona, whatever
\* the choices, confirmations and force-ends.
C33Theorem ==
    /\ info.ghost_class # "None" => info.player_class # "None"
    /\ panicked # "unwrap on None"
\* after a force-end the already-met script was started and has read the player
\* persona for its greeting, both personas being recorded
C33Witness ==
    /\ last.forced /\ panicked = ""
    /\ info.ghost_class # "None" /\ info.player_class # "None"
    /\ \E t \in Slots : tasks[t].script = "ghost_after" /\ tasks[t].pc = "ga_hello"

\* C34: whenever a companion persona is recorded and no script is alive, the
\* ghost carries a FollowComponent that targets the player.
C34Counterexample ==
    (info.ghost_class # "None" /\ NumLive = 0 /\ panicked = "") =>
        (world.follow["ghost"].some /\ world.follow["ghost"].target = "player")

\* a poll that resumes the script at the head of the queue and ends it with Ok
Completes ==
    /\ phase = "tasks" /\ last'.op = "resumed"
    /\ NumLive' = NumLive - 1
    /\ panicked' = ""

\* C35: a poll in which a script runs to its successful end leaves the dialogue
\* idle: not shown, no pending continuation, no choice list, no portrait, the
\* highlight at 0.  The lamp script goes from its start to its first line, to
\* its second line, to its end, one poll each, the last two polls each resumed
\* by a value; and a Game::update delivers a value to a lamp script exactly when
\* Space is pressed in it: the script completes after exactly two confirm inputs.
C35Idle ==
    Completes =>
        /\ ~dialogue'.shown
        /\ dialogue'.waiting_for = Nothing
        /\ dialogue'.choices = NoChoices
        /\ dialogue'.portrait = NoPortrait
        /\ dialogue'.current_choice = 0
C35LampSteps ==
    (phase = "tasks" /\ tasks[Head(Queue)].script = "lamp_dialogue_tree") =>
        LET t == Head(Queue)
        IN  /\ last'.op = "started" =>
                  (tasks'[t].pc = "lamp_1" /\ dialogue'.waiting_for = Waiting("Confirm", t))
            /\ (last'.op = "resumed" /\ tasks[t].pc = "lamp_1") =>
                  (tasks'[t].pc = "lamp_2" /\ dialogue'.waiting_for = Waiting("Confirm", t))
            /\ (last'.op = "resumed" /\ tasks[t].pc = "lamp_2") => Completes
            /\ Completes => tasks[t].pc = "lamp_2"
C35LampConfirm ==
    (phase = "update" /\ panicked = "" /\ dialogue.shown
        /\ dialogue.waiting_for.kind = "Confirm"
        /\ tasks[dialogue.waiting_for.ch].script = "lamp_dialogue_tree") =>
        \A k \in Keys(TRUE) :
            k.space <=> Game_update(G, k).chan[dialogue.waiting_for.ch].st = "value"
C35Theorem == [](C35LampConfirm) /\ [][C35Idle /\ C35LampSteps]_vars
\* the lamp script, the only script there has been (no persona is recorded), was
\* resumed from its second line and has ended: the dialogue is idle
C35Witness ==
    /\ last.op = "resumed" /\ NumLive = 0 /\ panicked = ""
    /\ info.player_class = "None" /\ info.ghost_class = "None"
    /\ ~dialogue.shown /\ dialogue.portrait = NoPortrait
    /\ dialogue.current_text = Line("I WISH IT WERE A BIT BRIGHTER...")

\* the followers whose target has a Position and does not move: it follows nothing
Steady == {id \in Ids : Follows(world, id) /\ ~world[world[id].follow.target.id].follow.some}
Separation(w, id) == Abs(XDiff(w, id)) + Abs(YDiff(w, id))

\* C36: with a target that does not move, a follow step never increases a
\* follower's Manhattan separation from it and never takes the follower past it
\* on either axis, a follower within max_distance stays where it is, and the
\* steps going on, the separation is at most max_distance from some step on and
\* the follower's Position changes no more.
C36Step ==
    \A id \in Steady :
        /\ Separation(world', id) <= Separation(world, id)
        /\ XDiff(world, id) * XDiff(world', id) >= 0
        /\ YDiff(world, id) * YDiff(world', id) >= 0
        /\ Separation(world, id) <= world[id].follow.max_distance =>
              world'[id].pos = world[id].pos
C36Settled ==
    \A id \in Steady :
        /\ Separation(world, id) <= world[id].follow.max_distance
        /\ last.op = "follow" /\ world[id].pos = last.before[id].pos
AdjustmentIn(w, id, target_pos) == Adjustment(w[id].pos, w[id].follow, target_pos)

\* C37: a follow step moves every follower by the adjustment computed from the
\* positions at the start of the step, those of followers that the same step
\* moves included, and moves nothing else.
C37Theorem ==
    last.op = "follow" =>
        \A id \in Ids :
            IF Follows(last.before, id)
            THEN LET adjustment ==
                         AdjustmentIn(last.before, id,
                                      last.before[last.before[id].follow.target.id].pos)
                 IN  world[id] = [last.before[id] EXCEPT !.pos.x = @ + adjustment.x,
                                                         !.pos.y = @ + adjustment.y]
            ELSE world[id] = last.before[id]
\* the leader and its follower both moved in the step, and the follower moved
\* by another adjustment than the leader's new position would have given it
C37Witness ==
    /\ last.op = "follow"
    /\ Follows(last.before, 1) /\ Follows(last.before, 2)
    /\ world[1].pos # last.before[1].pos
    /\ world[2].pos # last.before[2].pos
    /\ AdjustmentIn(last.before, 2, last.before[1].pos)
          # AdjustmentIn(last.before, 2, world[1].pos)

\* C38: a tick that starts with the player's box clear of every other collision
\* box (no intersection of positive area), the other boxes normalized and
\* standing, ends with it clear of them again, whatever the keys held and
\* however the boxes are arranged.
C38Counterexample ==
    (last.op = "update" /\ panicked = "") => Clear(world)

\* C39: no sequence of Delete, Duplicate, Spawn, Select and Load clicks in the
\* editor panics; a Delete click on a selection that names no live entity (already
\* deleted, or absent from the loaded world) leaves every entity in place.
C39Counterexample ==
    /\ panicked = ""
    /\ (last.op = "delete" /\ ~Contains(last.before.overworld.world,
                                        last.before.editor.selected.entity))
          => world = last.before

====
